---- MODULE Spec2Model ----
(***************************************************************************)
(* A model of the LSF job driver, src/clib/lib/job_queue/lsf_driver.cpp.   *)
(*                                                                         *)
(* C strings are sequences of one-character strings; the null pointer is   *)
(* the one-element sequence NullPtr, which no C string can equal.  Caller  *)
(* threads run lsf_driver_submit_job and lsf_driver_get_job_status one     *)
(* memory access (or one blocking call) at a time, so that what the two    *)
(* pthread mutexes do and do not protect is visible.                       *)
(***************************************************************************)
EXTENDS Integers, Sequences, FiniteSets, TLC

(***************************************************************************)
(* Bounds of the model.                                                    *)
(***************************************************************************)
MaxJobId == 1
MaxCalls == 2
MaxTime == 1
MaxBhistTime == 1
MaxCounter == 2
MaxHosts == 2
MaxIndex == 2

\* the caller threads
Threads == {1, 2}

(***************************************************************************)
(* Strings.                                                                *)
(***************************************************************************)
NullPtr == <<"NUL">>

Lower == <<"a","b","c","d","e","f","g","h","i","j","k","l","m",
           "n","o","p","q","r","s","t","u","v","w","x","y","z">>

Upper == <<"A","B","C","D","E","F","G","H","I","J","K","L","M",
           "N","O","P","Q","R","S","T","U","V","W","X","Y","Z">>

toupper(c) ==
    IF \E i \in DOMAIN Lower : Lower[i] = c
    THEN Upper[CHOOSE i \in DOMAIN Lower : Lower[i] = c]
    ELSE c

util_alloc_strupr_copy(s) == [i \in DOMAIN s |-> toupper(s[i])]

DigitChars == <<"0","1","2","3","4","5","6","7","8","9">>

IsDigit(c) == \E i \in DOMAIN DigitChars : DigitChars[i] = c

DigitValue(c) == (CHOOSE i \in DOMAIN DigitChars : DigitChars[i] = c) - 1

\* sprintf("%d") / sprintf("%ld") of a non-negative integer
RECURSIVE sprintf_d(_)
sprintf_d(n) ==
    IF n < 10 THEN <<DigitChars[n + 1]>>
    ELSE sprintf_d(n \div 10) \o <<DigitChars[(n % 10) + 1]>>

\* the value of a string of decimal digits
RECURSIVE DigitsValue(_)
DigitsValue(s) ==
    IF s = <<>> THEN 0
    ELSE 10 * DigitsValue(SubSeq(s, 1, Len(s) - 1)) + DigitValue(s[Len(s)])

\* util_sscanf_int: TRUE and the value when the whole string is an integer
util_sscanf_int_ok(s) == s # <<>> /\ \A i \in DOMAIN s : IsDigit(s[i])

\* util_realloc_string_copy(old, src): a copy of src, or NULL when src is NULL
util_realloc_string_copy(old, src) == src

(***************************************************************************)
(* Program constants.                                                      *)
(***************************************************************************)
MAX_ERROR_COUNT == 100
SUBMIT_ERROR_SLEEP == 2
BJOBS_REFRESH_TIME == <<"1","0">>
DEFAULT_RSH_CMD == <<"s","s","h">>
DEFAULT_BSUB_CMD == <<"b","s","u","b">>
DEFAULT_BJOBS_CMD == <<"b","j","o","b","s">>
DEFAULT_BKILL_CMD == <<"b","k","i","l","l">>
DEFAULT_BHIST_CMD == <<"b","h","i","s","t">>
DEFAULT_SUBMIT_SLEEP == <<"0">>
LOCAL_LSF_SERVER == <<"L","O","C","A","L">>
NULL_LSF_SERVER == <<"N","U","L","L">>

\* lsf_submit_method_enum
LSF_SUBMIT_INVALID == "LSF_SUBMIT_INVALID"
LSF_SUBMIT_LOCAL_SHELL == "LSF_SUBMIT_LOCAL_SHELL"
LSF_SUBMIT_REMOTE_SHELL == "LSF_SUBMIT_REMOTE_SHELL"

\* the option keys
LSF_QUEUE == "LSF_QUEUE"
LSF_RESOURCE == "LSF_RESOURCE"
LSF_SERVER == "LSF_SERVER"
LSF_RSH_CMD == "LSF_RSH_CMD"
LSF_LOGIN_SHELL == "LSF_LOGIN_SHELL"
LSF_BSUB_CMD == "BSUB_CMD"
LSF_BJOBS_CMD == "BJOBS_CMD"
LSF_BKILL_CMD == "BKILL_CMD"
LSF_BHIST_CMD == "BHIST_CMD"
LSF_DEBUG_OUTPUT == "DEBUG_OUTPUT"
LSF_SUBMIT_SLEEP == "SUBMIT_SLEEP"
LSF_EXCLUDE_HOST == "EXCLUDE_HOST"
LSF_BJOBS_TIMEOUT == "BJOBS_TIMEOUT"
LSF_PROJECT_CODE == "PROJECT_CODE"

\* the LSF job status codes
JOB_STAT_NULL == 0
JOB_STAT_PEND == 1
JOB_STAT_PSUSP == 2
JOB_STAT_RUN == 4
JOB_STAT_SSUSP == 8
JOB_STAT_USUSP == 16
JOB_STAT_EXIT == 32
JOB_STAT_DONE == 64
JOB_STAT_PDONE == 128
JOB_STAT_UNKWN == 65536

\* the tokens of a bjobs listing and their codes
status_map ==
    [tok \in {"PEND", "SSUSP", "PSUSP", "USUSP", "RUN", "EXIT", "ZOMBI",
              "DONE", "PDONE", "UNKWN"} |->
        CASE tok = "PEND" -> JOB_STAT_PEND
          [] tok = "SSUSP" -> JOB_STAT_SSUSP
          [] tok = "PSUSP" -> JOB_STAT_PSUSP
          [] tok = "USUSP" -> JOB_STAT_USUSP
          [] tok = "RUN" -> JOB_STAT_RUN
          [] tok = "EXIT" -> JOB_STAT_EXIT
          [] tok = "ZOMBI" -> JOB_STAT_EXIT
          [] tok = "DONE" -> JOB_STAT_DONE
          [] tok = "PDONE" -> JOB_STAT_PDONE
          [] tok = "UNKWN" -> JOB_STAT_UNKWN]

\* job_status_type
JOB_QUEUE_NOT_ACTIVE == "JOB_QUEUE_NOT_ACTIVE"
JOB_QUEUE_PENDING == "JOB_QUEUE_PENDING"
JOB_QUEUE_RUNNING == "JOB_QUEUE_RUNNING"
JOB_QUEUE_DONE == "JOB_QUEUE_DONE"
JOB_QUEUE_EXIT == "JOB_QUEUE_EXIT"
JOB_QUEUE_UNKNOWN == "JOB_QUEUE_UNKNOWN"

\* the codes that have a job status, and the status of each
convert_status_map ==
    [code \in {JOB_STAT_NULL, JOB_STAT_PEND, JOB_STAT_SSUSP, JOB_STAT_USUSP,
               JOB_STAT_PSUSP, JOB_STAT_RUN, JOB_STAT_DONE, JOB_STAT_EXIT,
               JOB_STAT_UNKWN, JOB_STAT_DONE + JOB_STAT_PDONE} |->
        CASE code = JOB_STAT_NULL -> JOB_QUEUE_NOT_ACTIVE
          [] code = JOB_STAT_PEND -> JOB_QUEUE_PENDING
          [] code = JOB_STAT_SSUSP -> JOB_QUEUE_RUNNING
          [] code = JOB_STAT_USUSP -> JOB_QUEUE_RUNNING
          [] code = JOB_STAT_PSUSP -> JOB_QUEUE_RUNNING
          [] code = JOB_STAT_RUN -> JOB_QUEUE_RUNNING
          [] code = JOB_STAT_DONE -> JOB_QUEUE_DONE
          [] code = JOB_STAT_EXIT -> JOB_QUEUE_EXIT
          [] code = JOB_STAT_UNKWN -> JOB_QUEUE_UNKNOWN
          [] code = JOB_STAT_DONE + JOB_STAT_PDONE -> JOB_QUEUE_DONE]

\* what lsf_driver_convert_status throws for a code that has no job status
RuntimeError == "exc::runtime_error"

lsf_driver_convert_status(lsf_status) ==
    IF lsf_status \in DOMAIN convert_status_map
    THEN convert_status_map[lsf_status]
    ELSE RuntimeError

(***************************************************************************)
(* The driver, lsf_driver_struct, and its option setters.  A setter is a   *)
(* function from the driver and its argument to the driver it leaves.      *)
(***************************************************************************)
NoThread == 0

lsf_driver_set_project_code(d, project_code) ==
    [d EXCEPT !.project_code = util_realloc_string_copy(@, project_code)]

lsf_driver_set_queue(d, queue) ==
    [d EXCEPT !.queue_name = util_realloc_string_copy(@, queue)]

lsf_driver_set_login_shell(d, login_shell) ==
    [d EXCEPT !.login_shell = util_realloc_string_copy(@, login_shell)]

lsf_driver_set_rsh_cmd(d, rsh_cmd) ==
    [d EXCEPT !.rsh_cmd = util_realloc_string_copy(@, rsh_cmd)]

lsf_driver_set_bsub_cmd(d, bsub_cmd) ==
    [d EXCEPT !.bsub_cmd = util_realloc_string_copy(@, bsub_cmd)]

lsf_driver_set_bjobs_cmd(d, bjobs_cmd) ==
    [d EXCEPT !.bjobs_cmd = util_realloc_string_copy(@, bjobs_cmd)]

lsf_driver_set_bkill_cmd(d, bkill_cmd) ==
    [d EXCEPT !.bkill_cmd = util_realloc_string_copy(@, bkill_cmd)]

lsf_driver_set_bhist_cmd(d, bhist_cmd) ==
    [d EXCEPT !.bhist_cmd = util_realloc_string_copy(@, bhist_cmd)]

\* a setter that compares the server as it is written
lsf_driver_set_remote_server_exact(d, remote_server) ==
    IF remote_server = NullPtr THEN d
    ELSE LET d1 == [d EXCEPT !.remote_lsf_server =
                        util_realloc_string_copy(@, remote_server)]
         IN  IF remote_server = LOCAL_LSF_SERVER
             THEN [d1 EXCEPT !.submit_method = LSF_SUBMIT_LOCAL_SHELL]
             ELSE IF remote_server = NULL_LSF_SERVER
             THEN d1
             ELSE [d1 EXCEPT !.submit_method = LSF_SUBMIT_REMOTE_SHELL]

\* The server is recorded first, whatever it is; then its upper-cased copy
\* is compared with the two sentinels.  The "NULL" sentinel calls the setter
\* again with a null pointer, which does nothing.
lsf_driver_set_remote_server(d, remote_server) ==
    IF remote_server = NullPtr THEN d
    ELSE LET d1 == [d EXCEPT !.remote_lsf_server =
                        util_realloc_string_copy(@, remote_server)]
             tmp_server == util_alloc_strupr_copy(remote_server)
         IN  IF tmp_server = LOCAL_LSF_SERVER
             THEN [d1 EXCEPT !.submit_method = LSF_SUBMIT_LOCAL_SHELL]
             ELSE IF tmp_server = NULL_LSF_SERVER
             THEN d1
             ELSE [d1 EXCEPT !.submit_method = LSF_SUBMIT_REMOTE_SHELL]

\* stringlist_alloc_from_split(excluded, ", "): the non-empty pieces between
\* commas and spaces
RECURSIVE stringlist_alloc_from_split(_)
stringlist_alloc_from_split(s) ==
    LET IsSep(c) == c = "," \/ c = " "
    IN  IF s = <<>> THEN <<>>
        ELSE IF IsSep(s[1]) THEN stringlist_alloc_from_split(Tail(s))
        ELSE LET Stops == {i \in DOMAIN s : IsSep(s[i])}
                 n == IF Stops = {} THEN Len(s)
                      ELSE (CHOOSE i \in Stops : \A j \in Stops : i <= j) - 1
             IN  <<SubSeq(s, 1, n)>>
                 \o stringlist_alloc_from_split(SubSeq(s, n + 1, Len(s)))

\* an addition that appends every host of the list
AddHostsAll(hosts, host_list) == hosts \o host_list

\* the loop of lsf_driver_add_exclude_hosts: a host that is not in the list
\* yet is pushed to its back
RECURSIVE AddHosts(_, _)
AddHosts(hosts, host_list) ==
    IF host_list = <<>> THEN hosts
    ELSE AddHosts(IF \E i \in DOMAIN hosts : hosts[i] = Head(host_list)
                  THEN hosts
                  ELSE Append(hosts, Head(host_list)),
                  Tail(host_list))

lsf_driver_add_exclude_hosts(d, excluded) ==
    [d EXCEPT !.exclude_hosts = AddHosts(@, stringlist_alloc_from_split(excluded))]

\* util_sscanf_bool: the spellings of true and false, in any case
util_sscanf_bool_true(arg) ==
    util_alloc_strupr_copy(arg) \in {<<"T","R","U","E">>, <<"T">>, <<"1">>}

util_sscanf_bool_false(arg) ==
    util_alloc_strupr_copy(arg) \in {<<"F","A","L","S","E">>, <<"F">>, <<"0">>}

lsf_driver_set_debug_output(d, arg) ==
    IF util_sscanf_bool_true(arg) THEN [d EXCEPT !.debug_output = TRUE]
    ELSE IF util_sscanf_bool_false(arg) THEN [d EXCEPT !.debug_output = FALSE]
    ELSE d

\* submit_sleep is kept in microseconds; the modelled arguments are whole
\* seconds
lsf_driver_set_submit_sleep(d, arg) ==
    IF util_sscanf_int_ok(arg)
    THEN [d EXCEPT !.submit_sleep = 1000000 * DigitsValue(arg)]
    ELSE d

lsf_driver_set_bjobs_refresh_interval(d, refresh_interval) ==
    [d EXCEPT !.bjobs_refresh_interval = refresh_interval]

lsf_driver_set_bjobs_refresh_interval_option(d, option_value) ==
    IF util_sscanf_int_ok(option_value)
    THEN lsf_driver_set_bjobs_refresh_interval(d, DigitsValue(option_value))
    ELSE d

\* the driver set_option leaves
lsf_driver_set_option(d, option_key, value) ==
    IF option_key = LSF_RESOURCE
    THEN [d EXCEPT !.resource_request = util_realloc_string_copy(@, value)]
    ELSE IF option_key = LSF_SERVER THEN lsf_driver_set_remote_server(d, value)
    ELSE IF option_key = LSF_QUEUE THEN lsf_driver_set_queue(d, value)
    ELSE IF option_key = LSF_LOGIN_SHELL THEN lsf_driver_set_login_shell(d, value)
    ELSE IF option_key = LSF_RSH_CMD THEN lsf_driver_set_rsh_cmd(d, value)
    ELSE IF option_key = LSF_BSUB_CMD THEN lsf_driver_set_bsub_cmd(d, value)
    ELSE IF option_key = LSF_BJOBS_CMD THEN lsf_driver_set_bjobs_cmd(d, value)
    ELSE IF option_key = LSF_BKILL_CMD THEN lsf_driver_set_bkill_cmd(d, value)
    ELSE IF option_key = LSF_BHIST_CMD THEN lsf_driver_set_bhist_cmd(d, value)
    ELSE IF option_key = LSF_DEBUG_OUTPUT THEN lsf_driver_set_debug_output(d, value)
    ELSE IF option_key = LSF_SUBMIT_SLEEP THEN lsf_driver_set_submit_sleep(d, value)
    ELSE IF option_key = LSF_EXCLUDE_HOST THEN lsf_driver_add_exclude_hosts(d, value)
    ELSE IF option_key = LSF_BJOBS_TIMEOUT
    THEN lsf_driver_set_bjobs_refresh_interval_option(d, value)
    ELSE IF option_key = LSF_PROJECT_CODE THEN lsf_driver_set_project_code(d, value)
    ELSE d

\* a set_option that accepts every key
lsf_driver_has_option_any(option_key) == TRUE

\* what set_option returns
lsf_driver_has_option(option_key) ==
    option_key \in {LSF_RESOURCE, LSF_SERVER, LSF_QUEUE, LSF_LOGIN_SHELL,
                    LSF_RSH_CMD, LSF_BSUB_CMD, LSF_BJOBS_CMD, LSF_BKILL_CMD,
                    LSF_BHIST_CMD, LSF_DEBUG_OUTPUT, LSF_SUBMIT_SLEEP,
                    LSF_EXCLUDE_HOST, LSF_BJOBS_TIMEOUT, LSF_PROJECT_CODE}

\* the keys lsf_driver_get_option has a branch for
lsf_driver_get_option_keys ==
    {LSF_RESOURCE, LSF_SERVER, LSF_QUEUE, LSF_LOGIN_SHELL, LSF_RSH_CMD,
     LSF_BJOBS_CMD, LSF_BSUB_CMD, LSF_BKILL_CMD, LSF_BHIST_CMD,
     LSF_PROJECT_CODE, LSF_BJOBS_TIMEOUT}

\* lsf_driver_get_option, for a key it has a branch for; with any other key
\* it calls util_abort
lsf_driver_get_option(d, option_key) ==
    IF option_key = LSF_RESOURCE THEN d.resource_request
    ELSE IF option_key = LSF_SERVER THEN d.remote_lsf_server
    ELSE IF option_key = LSF_QUEUE THEN d.queue_name
    ELSE IF option_key = LSF_LOGIN_SHELL THEN d.login_shell
    ELSE IF option_key = LSF_RSH_CMD THEN d.rsh_cmd
    ELSE IF option_key = LSF_BJOBS_CMD THEN d.bjobs_cmd
    ELSE IF option_key = LSF_BSUB_CMD THEN d.bsub_cmd
    ELSE IF option_key = LSF_BKILL_CMD THEN d.bkill_cmd
    ELSE IF option_key = LSF_BHIST_CMD THEN d.bhist_cmd
    ELSE IF option_key = LSF_PROJECT_CODE THEN d.project_code
    ELSE IF option_key = LSF_BJOBS_TIMEOUT THEN sprintf_d(d.bjobs_refresh_interval)
    ELSE NullPtr

lsf_driver_shell_init(d, time) ==
    [d EXCEPT !.last_bjobs_update = time,
              !.bjobs_cache = {},
              !.my_jobs = {},
              !.bsub_cmd = NullPtr,
              !.bjobs_cmd = NullPtr,
              !.bkill_cmd = NullPtr,
              !.bhist_cmd = NullPtr,
              !.bjobs_mutex = NoThread]

lsf_driver_init_submit_method(d) ==
    [d EXCEPT !.submit_method = LSF_SUBMIT_LOCAL_SHELL]

\* the driver lsf_driver_alloc returns when the clock reads time
lsf_driver_alloc(time) ==
    LET d0 == [submit_method |-> LSF_SUBMIT_INVALID,
               login_shell |-> NullPtr,
               queue_name |-> NullPtr,
               remote_lsf_server |-> NullPtr,
               rsh_cmd |-> NullPtr,
               resource_request |-> NullPtr,
               project_code |-> NullPtr,
               error_count |-> 0,
               max_error_count |-> MAX_ERROR_COUNT,
               submit_error_sleep |-> SUBMIT_ERROR_SLEEP * 1000000,
               submit_lock |-> NoThread,
               exclude_hosts |-> <<>>,
               submit_sleep |-> 0,
               debug_output |-> FALSE,
               bjobs_refresh_interval |-> 0,
               last_bjobs_update |-> 0,
               bjobs_cache |-> {},
               my_jobs |-> {},
               bsub_cmd |-> NullPtr,
               bjobs_cmd |-> NullPtr,
               bkill_cmd |-> NullPtr,
               bhist_cmd |-> NullPtr,
               bjobs_mutex |-> NoThread]
        d1 == lsf_driver_init_submit_method(lsf_driver_shell_init(d0, time))
        d2 == lsf_driver_set_option(d1, LSF_SERVER, NullPtr)
        d3 == lsf_driver_set_option(d2, LSF_RSH_CMD, DEFAULT_RSH_CMD)
        d4 == lsf_driver_set_option(d3, LSF_BSUB_CMD, DEFAULT_BSUB_CMD)
        d5 == lsf_driver_set_option(d4, LSF_BJOBS_CMD, DEFAULT_BJOBS_CMD)
        d6 == lsf_driver_set_option(d5, LSF_BKILL_CMD, DEFAULT_BKILL_CMD)
        d7 == lsf_driver_set_option(d6, LSF_BHIST_CMD, DEFAULT_BHIST_CMD)
        d8 == lsf_driver_set_option(d7, LSF_DEBUG_OUTPUT, <<"F","A","L","S","E">>)
        d9 == lsf_driver_set_option(d8, LSF_SUBMIT_SLEEP, DEFAULT_SUBMIT_SLEEP)
    IN  lsf_driver_set_option(d9, LSF_BJOBS_TIMEOUT, BJOBS_REFRESH_TIME)

(***************************************************************************)
(* The hash tables my_jobs (a set of keys) and bjobs_cache (a set of       *)
(* entries, one for a key).                                                *)
(***************************************************************************)
hash_has_key(hash, key) == \E e \in hash : e.key = key

hash_get_int(hash, key) == (CHOOSE e \in hash : e.key = key).value

hash_insert_int(hash, key, value) ==
    {e \in hash : e.key # key} \cup {[key |-> key, value |-> value]}

(***************************************************************************)
(* The state.                                                              *)
(***************************************************************************)
VARIABLES
    driver,     \* the lsf_driver_struct
    now,        \* what time(NULL) returns
    exited,     \* "" while the process runs, else what terminated it
    lsb_next,   \* the id the batch system gives to the next job it accepts
    lsf_json,   \* the receipt file lsf_info.json of each run path
    handles,    \* the job handles the callers hold
    ncalls,     \* the calls that count against the bound of the model
    pc,         \* where each caller thread is
    loc,        \* the local variables of the call each thread is in
    ret,        \* what the call of each thread returns
    prov,       \* for each key of bjobs_cache, what wrote its entry
    omitted,    \* the job ids some bjobs listing has left out
    final,      \* the DONE and EXIT statuses the callers have been given, by job
    last_set,   \* the key and the value of the last set_option that was run
    row_scaling \* the RowScaling object of the caller, and what its last call did

vars == <<driver, now, exited, lsb_next, lsf_json, handles, ncalls, pc, loc,
          ret, prov, omitted, final, last_set, row_scaling>>

NoValue == <<>>

RunPaths == {<<"r","1">>}

\* a job handle, lsf_job_struct, with its id and the key it is looked up by
lsf_job(lsf_jobnr, lsf_jobnr_char) ==
    [lsf_jobnr |-> lsf_jobnr, lsf_jobnr_char |-> lsf_jobnr_char]

\* lsf_job_alloc
lsf_job_alloc == lsf_job(0, NullPtr)

\* the locals of a thread that is in no call, and what no call returns
NoLocals == [job |-> lsf_job_alloc, run_path |-> NoValue, lines |-> <<>>,
             status |-> JOB_STAT_NULL, error_count |-> 0,
             key |-> "", value |-> NoValue, args |-> NoValue,
             result |-> NoValue, listing |-> <<>>, stdout |-> <<>>]

NoReturn == [null |-> TRUE, job |-> lsf_job_alloc, lsf_status |-> JOB_STAT_NULL,
             job_status |-> JOB_QUEUE_NOT_ACTIVE, has_option |-> FALSE,
             value |-> NullPtr]

ReturnJob(job) == [NoReturn EXCEPT !.null = FALSE, !.job = job]

\* lsf_driver_get_job_status: the code of the shell lookup, converted
ReturnStatus(lsf_status) ==
    [NoReturn EXCEPT !.null = FALSE, !.lsf_status = lsf_status,
                     !.job_status = lsf_driver_convert_status(lsf_status)]

(***************************************************************************)
(* RowScaling, as test_row_scaling.cpp uses it: a vector of scaling        *)
(* factors.  A factor is counted in halves, so that 0, 1 and 2 are the     *)
(* factors 0, 0.5 and 1.                                                   *)
(***************************************************************************)
One == 2

\* no call: the name of a call, its arguments, and the size it found
NoCall == [op |-> "", index |-> 0, value |-> 0, data |-> <<>>, before |-> 0]

\* a RowScaling object after its constructor: no factor, and no call made
RowScaling ==
    [m_data |-> <<>>, call |-> NoCall, thrown |-> "", read |-> 0]

\* size()
RowScaling_size(rs) == Len(rs.m_data)

\* the vector resized to at least n elements, the new ones 0
RowScaling_resize(m_data, n) ==
    [i \in 1..(IF n > Len(m_data) THEN n ELSE Len(m_data)) |->
        IF i <= Len(m_data) THEN m_data[i] ELSE 0]

\* an assign_vector that keeps the elements behind the new ones
RowScaling_assign_vector_keep(rs, data) ==
    [i \in 1..(IF Len(data) > Len(rs.m_data) THEN Len(data) ELSE Len(rs.m_data)) |->
        IF i <= Len(data) THEN data[i] ELSE rs.m_data[i]]

\* assign_vector(data, size): the vector is the size elements of data
RowScaling_assign_vector(rs, data) == data

\* assign(index, value), for an index and a value it takes
RowScaling_assign(rs, index, value) ==
    [RowScaling_resize(rs.m_data, index + 1) EXCEPT ![index + 1] = value]

Init ==
    /\ driver = lsf_driver_alloc(0)
    /\ now = 0
    /\ exited = ""
    /\ lsb_next = 1
    /\ lsf_json = [p \in RunPaths |-> NullPtr]
    /\ handles = {}
    /\ ncalls = 0
    /\ pc = [t \in Threads |-> "idle"]
    /\ loc = [t \in Threads |-> NoLocals]
    /\ ret = [t \in Threads |-> NoReturn]
    /\ prov = {}
    /\ omitted = {}
    /\ final = {}
    /\ last_set = [key |-> "", value |-> NoValue]
    /\ row_scaling = RowScaling

Running == exited = ""

\* the clock moves on
Tick ==
    /\ Running
    /\ now < MaxTime
    /\ now' = now + 1
    /\ UNCHANGED <<driver, exited, lsb_next, lsf_json, handles, pc,
                   loc, ret, prov, omitted, final, last_set, row_scaling>>
    /\ UNCHANGED ncalls

(***************************************************************************)
(* lsf_driver_submit_job                                                   *)
(***************************************************************************)
\* lsf_driver_assert_submit_method
AssertSubmitMethodFails(d) == d.submit_method = LSF_SUBMIT_INVALID

\* The call: the submit method is asserted and the job handle allocated.
SubmitCall(t, run_path) ==
    /\ Running
    /\ pc[t] = "idle"
    /\ IF AssertSubmitMethodFails(driver)
       THEN /\ exited' = "lsf_driver_internal_error"
            /\ UNCHANGED <<pc, loc>>
       ELSE /\ pc' = [pc EXCEPT ![t] = "submit_lock"]
            /\ loc' = [loc EXCEPT ![t] = [NoLocals EXCEPT !.job = lsf_job_alloc,
                                                         !.run_path = run_path]]
            /\ UNCHANGED exited
    /\ UNCHANGED <<driver, now, lsb_next, lsf_json, handles, ret, prov, omitted, final, last_set, row_scaling>>

\* a submit that does not wait for the lock
SubmitLockNoWait(t) ==
    /\ Running
    /\ pc[t] = "submit_lock"
    /\ driver' = [driver EXCEPT !.submit_lock = t]
    /\ pc' = [pc EXCEPT ![t] = "submit_shell"]
    /\ UNCHANGED <<now, exited, lsb_next, lsf_json, handles, loc, ret,
                   prov, omitted, final, last_set, row_scaling>>
    /\ UNCHANGED ncalls

\* pthread_mutex_lock(&driver->submit_lock)
SubmitLock(t) ==
    /\ Running
    /\ pc[t] = "submit_lock"
    /\ driver.submit_lock = NoThread
    /\ driver' = [driver EXCEPT !.submit_lock = t]
    /\ pc' = [pc EXCEPT ![t] = "submit_shell"]
    /\ UNCHANGED <<now, exited, lsb_next, lsf_json, handles, loc, ret,
                   prov, omitted, final, last_set, row_scaling>>
    /\ UNCHANGED ncalls

\* what the submit command can leave in the file its output goes to: nothing,
\* the acknowledgment of a new job, or a text with no job id
BsubStdout ==
    {<<>>, <<"e","r","r">>, <<"<","0",">">>}
    \cup (IF lsb_next <= MaxJobId THEN {<<"<">> \o sprintf_d(lsb_next) \o <<">">>}
          ELSE {})

\* the text between the first "<" and the ">" after it; NullPtr without them
BetweenBrackets(text) ==
    LET Opens == {i \in DOMAIN text : text[i] = "<"}
        open == CHOOSE i \in Opens : \A j \in Opens : i <= j
        Closes == {i \in DOMAIN text : i > open /\ text[i] = ">"}
        close == CHOOSE i \in Closes : \A j \in Closes : i <= j
    IN  IF Opens = {} THEN NullPtr
        ELSE IF Closes = {} THEN NullPtr
        ELSE SubSeq(text, open + 1, close - 1)

\* lsf_job_parse_bsub_stdout: the job id, 0 for an empty file
lsf_job_parse_bsub_stdout(text) ==
    IF text = <<>> THEN 0
    ELSE LET jobid_string == BetweenBrackets(text)
         IN  IF jobid_string # NullPtr /\ util_sscanf_int_ok(jobid_string)
             THEN DigitsValue(jobid_string)
             ELSE 0

\* a parser that takes every file
ParseBsubStdoutNeverAborts(text) == FALSE

\* lsf_job_parse_bsub_stdout aborts on a file that has text and no job id
ParseBsubStdoutAborts(text) ==
    text # <<>> /\ lsf_job_parse_bsub_stdout(text) = 0

\* lsf_driver_submit_shell_job: the command is built and run, its output
\* parsed; stdout keeps the text of the file that was parsed
SubmitShellJob(t, text) ==
    /\ Running
    /\ pc[t] = "submit_shell"
    /\ IF ParseBsubStdoutAborts(text)
       THEN /\ exited' = "lsf_job_parse_bsub_stdout"
            /\ loc' = [loc EXCEPT ![t].stdout = text]
            /\ UNCHANGED <<pc, lsb_next>>
       ELSE /\ loc' = [loc EXCEPT ![t].job.lsf_jobnr = lsf_job_parse_bsub_stdout(text),
                                  ![t].stdout = text]
            /\ lsb_next' = IF text = <<>> THEN lsb_next ELSE lsb_next + 1
            /\ pc' = [pc EXCEPT ![t] = "submit_register"]
            /\ UNCHANGED exited
    /\ UNCHANGED <<driver, now, lsf_json, handles, ret, prov, omitted, final, last_set, row_scaling>>
    /\ UNCHANGED ncalls

\* a submit that makes the key but leaves my_jobs as it is
SubmitRegisterNowhere(t) ==
    /\ Running
    /\ pc[t] = "submit_register"
    /\ loc' = [loc EXCEPT ![t].job.lsf_jobnr_char = sprintf_d(loc[t].job.lsf_jobnr)]
    /\ pc' = [pc EXCEPT ![t] = "submit_unlock"]
    /\ UNCHANGED <<driver, now, exited, lsb_next, lsf_json, handles, ret, prov,
                   omitted, final, last_set, row_scaling>>
    /\ UNCHANGED ncalls

\* the key is made of the id and put in my_jobs
SubmitRegister(t) ==
    /\ Running
    /\ pc[t] = "submit_register"
    /\ LET lsf_jobnr_char == sprintf_d(loc[t].job.lsf_jobnr)
       IN  /\ loc' = [loc EXCEPT ![t].job.lsf_jobnr_char = lsf_jobnr_char]
           /\ driver' = [driver EXCEPT !.my_jobs = @ \cup {lsf_jobnr_char}]
    /\ pc' = [pc EXCEPT ![t] = "submit_unlock"]
    /\ UNCHANGED <<now, exited, lsb_next, lsf_json, handles, ret, prov,
                   omitted, final, last_set, row_scaling>>
    /\ UNCHANGED ncalls

\* a submit that goes on without unlocking submit_lock
SubmitUnlockKept(t) ==
    /\ Running
    /\ pc[t] = "submit_unlock"
    /\ pc' = [pc EXCEPT ![t] = "submit_result"]
    /\ UNCHANGED <<driver, now, exited, lsb_next, lsf_json, handles, loc, ret,
                   prov, omitted, final, last_set, row_scaling>>
    /\ UNCHANGED ncalls

\* pthread_mutex_unlock(&driver->submit_lock)
SubmitUnlock(t) ==
    /\ Running
    /\ pc[t] = "submit_unlock"
    /\ driver' = [driver EXCEPT !.submit_lock = NoThread]
    /\ pc' = [pc EXCEPT ![t] = "submit_result"]
    /\ UNCHANGED <<now, exited, lsb_next, lsf_json, handles, loc, ret,
                   prov, omitted, final, last_set, row_scaling>>
    /\ UNCHANGED ncalls

\* the text of the receipt file
LsfJson(lsf_jobnr) ==
    <<"{","\"","j","o","b","_","i","d","\""," ",":"," ">>
        \o sprintf_d(lsf_jobnr) \o <<"}","\n">>

\* a submit that takes the id 0 for the id of a job
SubmitResultOfZero(t) ==
    /\ Running
    /\ pc[t] = "submit_result"
    /\ lsf_json' = [lsf_json EXCEPT ![loc[t].run_path] = LsfJson(loc[t].job.lsf_jobnr)]
    /\ ret' = [ret EXCEPT ![t] = ReturnJob(loc[t].job)]
    /\ pc' = [pc EXCEPT ![t] = "submit_done"]
    /\ UNCHANGED <<driver, now, exited, lsb_next, handles, loc, prov, omitted, final, last_set, row_scaling>>
    /\ UNCHANGED ncalls

\* A job with an id gets its receipt and is returned; without one the error
\* count is read, to be incremented.
SubmitResult(t) ==
    /\ Running
    /\ pc[t] = "submit_result"
    /\ IF loc[t].job.lsf_jobnr > 0
       THEN /\ lsf_json' = [lsf_json EXCEPT ![loc[t].run_path] =
                                LsfJson(loc[t].job.lsf_jobnr)]
            /\ ret' = [ret EXCEPT ![t] = ReturnJob(loc[t].job)]
            /\ pc' = [pc EXCEPT ![t] = "submit_done"]
            /\ UNCHANGED loc
       ELSE /\ loc' = [loc EXCEPT ![t].error_count = driver.error_count]
            /\ pc' = [pc EXCEPT ![t] = "submit_error"]
            /\ UNCHANGED <<lsf_json, ret>>
    /\ UNCHANGED <<driver, now, exited, lsb_next, handles, prov, omitted, final, last_set, row_scaling>>
    /\ UNCHANGED ncalls

\* a submit that gives up one error late
SubmitErrorLate(t) ==
    /\ Running
    /\ pc[t] = "submit_error"
    /\ LET error_count == loc[t].error_count + 1
       IN  IF error_count > driver.max_error_count
           THEN /\ driver' = [driver EXCEPT !.error_count = error_count]
                /\ exited' = "util_exit: submit errors"
                /\ UNCHANGED <<pc, ret>>
           ELSE /\ driver' = [driver EXCEPT !.error_count = error_count,
                                            !.debug_output = TRUE]
                /\ ret' = [ret EXCEPT ![t] = NoReturn]
                /\ pc' = [pc EXCEPT ![t] = "submit_done"]
                /\ UNCHANGED exited
    /\ UNCHANGED <<now, lsb_next, lsf_json, handles, loc, prov, omitted, final, last_set, row_scaling>>
    /\ UNCHANGED ncalls

\* driver->error_count++ is completed and compared with the maximum.
SubmitError(t) ==
    /\ Running
    /\ pc[t] = "submit_error"
    /\ LET error_count == loc[t].error_count + 1
       IN  IF error_count >= driver.max_error_count
           THEN /\ driver' = [driver EXCEPT !.error_count = error_count]
                /\ exited' = "util_exit: submit errors"
                /\ UNCHANGED <<pc, ret>>
           ELSE /\ driver' = [driver EXCEPT !.error_count = error_count,
                                            !.debug_output = TRUE]
                /\ ret' = [ret EXCEPT ![t] = NoReturn]
                /\ pc' = [pc EXCEPT ![t] = "submit_done"]
                /\ UNCHANGED exited
    /\ UNCHANGED <<now, lsb_next, lsf_json, handles, loc, prov, omitted, final, last_set, row_scaling>>
    /\ UNCHANGED ncalls

\* the caller takes what submit returned
SubmitReturn(t) ==
    /\ Running
    /\ pc[t] = "submit_done"
    /\ handles' = IF ret[t].null THEN handles ELSE handles \cup {ret[t].job}
    /\ pc' = [pc EXCEPT ![t] = "idle"]
    /\ loc' = [loc EXCEPT ![t] = NoLocals]
    /\ ret' = [ret EXCEPT ![t] = NoReturn]
    /\ UNCHANGED <<driver, now, exited, lsb_next, lsf_json, prov, omitted, final, last_set, row_scaling>>
    /\ UNCHANGED ncalls

Submit(t) ==
    \/ SubmitLock(t)
    \/ \E text \in BsubStdout : SubmitShellJob(t, text)
    \/ SubmitRegister(t)
    \/ SubmitUnlock(t)
    \/ SubmitResult(t)
    \/ SubmitError(t)
    \/ SubmitReturn(t)

(***************************************************************************)
(* lsf_driver_get_job_status                                               *)
(***************************************************************************)
\* the tokens the modelled listings use; the last is not one of status_map
ListedTokens == {"RUN", "DONE", "FOOBAR"}

NotListed == "-"

\* the lines of a listing that reports the ids 1..MaxJobId as f says, in the
\* order of the ids: what sscanf("%d %s %s") reads from each line
RECURSIVE ListingLines(_, _)
ListingLines(f, id) ==
    IF id > MaxJobId THEN <<>>
    ELSE (IF f[id] = NotListed THEN <<>>
          ELSE <<[job_id_int |-> id, status |-> f[id]]>>)
         \o ListingLines(f, id + 1)

Listings == [1..MaxJobId -> ListedTokens \cup {NotListed}]

\* the call; a null job has status JOB_STAT_NULL at once
GetStatusCall(t, job) ==
    /\ Running
    /\ pc[t] = "idle"
    /\ pc' = [pc EXCEPT ![t] = "bjobs_lock"]
    /\ loc' = [loc EXCEPT ![t] = [NoLocals EXCEPT !.job = job]]
    /\ UNCHANGED <<driver, now, exited, lsb_next, lsf_json, handles, ret, prov, omitted, final, last_set, row_scaling>>

GetStatusNull(t) ==
    /\ Running
    /\ pc[t] = "idle"
    /\ pc' = [pc EXCEPT ![t] = "status_done"]
    /\ ret' = [ret EXCEPT ![t] = ReturnStatus(JOB_STAT_NULL)]
    /\ UNCHANGED <<driver, now, exited, lsb_next, lsf_json, handles, loc, prov, omitted, final, last_set, row_scaling>>

\* a test that takes the interval for elapsed as soon as it is reached
update_cache_early(d, time, job) ==
    \/ time - d.last_bjobs_update >= d.bjobs_refresh_interval
    \/ ~hash_has_key(d.bjobs_cache, job.lsf_jobnr_char)

\* the test that decides whether the cache is updated
update_cache(d, time, job) ==
    \/ time - d.last_bjobs_update > d.bjobs_refresh_interval
    \/ ~hash_has_key(d.bjobs_cache, job.lsf_jobnr_char)

\* a status lookup that waits for the submit lock too
StatusLockBehindSubmit(t) ==
    /\ Running
    /\ pc[t] = "bjobs_lock"
    /\ driver.bjobs_mutex = NoThread
    /\ driver.submit_lock = NoThread
    /\ driver' = [driver EXCEPT !.bjobs_mutex = t]
    /\ pc' = [pc EXCEPT ![t] = IF update_cache(driver, now, loc[t].job)
                               THEN "bjobs_spawn" ELSE "bjobs_unlock"]
    /\ UNCHANGED <<now, exited, lsb_next, lsf_json, handles, loc, ret,
                   prov, omitted, final, last_set, row_scaling>>
    /\ UNCHANGED ncalls

\* pthread_mutex_lock(&driver->bjobs_mutex), and the test
StatusLock(t) ==
    /\ Running
    /\ pc[t] = "bjobs_lock"
    /\ driver.bjobs_mutex = NoThread
    /\ driver' = [driver EXCEPT !.bjobs_mutex = t]
    /\ pc' = [pc EXCEPT ![t] = IF update_cache(driver, now, loc[t].job)
                               THEN "bjobs_spawn" ELSE "bjobs_unlock"]
    /\ UNCHANGED <<now, exited, lsb_next, lsf_json, handles, loc, ret,
                   prov, omitted, final, last_set, row_scaling>>
    /\ UNCHANGED ncalls

\* lsf_driver_update_bjobs_table: the listing command returns, its output is
\* opened and the cache cleared; listing keeps the lines that were read until
\* the update ends
UpdateSpawn(t, f) ==
    /\ Running
    /\ pc[t] = "bjobs_spawn"
    /\ loc' = [loc EXCEPT ![t].lines = ListingLines(f, 1),
                           ![t].listing = ListingLines(f, 1)]
    /\ driver' = [driver EXCEPT !.bjobs_cache = {}]
    /\ prov' = {}
    /\ omitted' = omitted \cup {id \in 1..(lsb_next - 1) : f[id] \notin DOMAIN status_map}
    /\ pc' = [pc EXCEPT ![t] = "bjobs_lines"]
    /\ UNCHANGED <<now, exited, lsb_next, lsf_json, handles, ret, final, last_set, row_scaling>>
    /\ UNCHANGED ncalls

\* an update that takes a token it does not know for JOB_STAT_UNKWN
UpdateLineSilent(t) ==
    /\ Running
    /\ pc[t] = "bjobs_lines"
    /\ loc[t].lines # <<>>
    /\ LET line == Head(loc[t].lines)
           job_id == sprintf_d(line.job_id_int)
       IN  IF job_id \in driver.my_jobs
           THEN /\ driver' = [driver EXCEPT !.bjobs_cache =
                       hash_insert_int(@, job_id,
                           IF line.status \in DOMAIN status_map
                           THEN status_map[line.status] ELSE JOB_STAT_UNKWN)]
                /\ prov' = {p \in prov : p.key # job_id}
                           \cup {[key |-> job_id, by |-> "bjobs"]}
                /\ UNCHANGED exited
           ELSE UNCHANGED <<driver, prov, exited>>
    /\ loc' = [loc EXCEPT ![t].lines = Tail(@)]
    /\ UNCHANGED <<now, lsb_next, lsf_json, handles, pc, ret, omitted, final, last_set, row_scaling>>
    /\ UNCHANGED ncalls

\* lsf_driver_update_bjobs_table: the next line of the listing
UpdateLine(t) ==
    /\ Running
    /\ pc[t] = "bjobs_lines"
    /\ loc[t].lines # <<>>
    /\ LET line == Head(loc[t].lines)
           job_id == sprintf_d(line.job_id_int)
       IN  IF job_id \in driver.my_jobs
           THEN IF line.status \in DOMAIN status_map
                THEN /\ driver' = [driver EXCEPT !.bjobs_cache =
                            hash_insert_int(@, job_id, status_map[line.status])]
                     /\ prov' = {p \in prov : p.key # job_id}
                                \cup {[key |-> job_id, by |-> "bjobs"]}
                     /\ UNCHANGED exited
                ELSE /\ exited' = "util_exit: lsf_status not recognized"
                     /\ UNCHANGED <<driver, prov>>
           ELSE UNCHANGED <<driver, prov, exited>>
    /\ loc' = [loc EXCEPT ![t].lines = Tail(@)]
    /\ UNCHANGED <<now, lsb_next, lsf_json, handles, pc, ret, omitted, final, last_set, row_scaling>>
    /\ UNCHANGED ncalls

\* the listing is read to its end, and the time of the update is set
UpdateEnd(t) ==
    /\ Running
    /\ pc[t] = "bjobs_lines"
    /\ loc[t].lines = <<>>
    /\ driver' = [driver EXCEPT !.last_bjobs_update = now]
    /\ prov' = {[key |-> p.key,
                 by |-> IF p.by = "bjobs" THEN "bjobs_done" ELSE p.by] : p \in prov}
    /\ loc' = [loc EXCEPT ![t].listing = <<>>]
    /\ pc' = [pc EXCEPT ![t] = "bjobs_unlock"]
    /\ UNCHANGED <<now, exited, lsb_next, lsf_json, handles, ret,
                   omitted, final, last_set, row_scaling>>
    /\ UNCHANGED ncalls

\* pthread_mutex_unlock(&driver->bjobs_mutex)
StatusUnlock(t) ==
    /\ Running
    /\ pc[t] = "bjobs_unlock"
    /\ driver' = [driver EXCEPT !.bjobs_mutex = NoThread]
    /\ pc' = [pc EXCEPT ![t] = "has_key"]
    /\ UNCHANGED <<now, exited, lsb_next, lsf_json, handles, loc, ret,
                   prov, omitted, final, last_set, row_scaling>>
    /\ UNCHANGED ncalls

\* hash_has_key(driver->bjobs_cache, job->lsf_jobnr_char), the mutex released;
\* without the key the debug output is turned on
StatusHasKey(t) ==
    /\ Running
    /\ pc[t] = "has_key"
    /\ IF hash_has_key(driver.bjobs_cache, loc[t].job.lsf_jobnr_char)
       THEN /\ pc' = [pc EXCEPT ![t] = "get_int"]
            /\ UNCHANGED driver
       ELSE /\ pc' = [pc EXCEPT ![t] = "bhist"]
            /\ driver' = [driver EXCEPT !.debug_output = TRUE]
    /\ UNCHANGED <<now, exited, lsb_next, lsf_json, handles, loc, ret,
                   prov, omitted, final, last_set, row_scaling>>
    /\ UNCHANGED ncalls

\* hash_get_int(driver->bjobs_cache, job->lsf_jobnr_char); the hash table
\* aborts when the key is not in it
StatusGetInt(t) ==
    /\ Running
    /\ pc[t] = "get_int"
    /\ IF hash_has_key(driver.bjobs_cache, loc[t].job.lsf_jobnr_char)
       THEN /\ ret' = [ret EXCEPT ![t] = ReturnStatus(
                          hash_get_int(driver.bjobs_cache, loc[t].job.lsf_jobnr_char))]
            /\ pc' = [pc EXCEPT ![t] = "status_done"]
            /\ UNCHANGED exited
       ELSE /\ exited' = "util_abort: hash_get"
            /\ UNCHANGED <<pc, ret>>
    /\ UNCHANGED <<driver, now, lsb_next, lsf_json, handles, loc, prov,
                   omitted, final, last_set, row_scaling>>
    /\ UNCHANGED ncalls

\* what lsf_driver_run_bhist can read: nothing it can parse, or the pending
\* and the running time
BhistFailed == [bhist_ok |-> FALSE, pend_time |-> 0, run_time |-> 0]

BhistSamples ==
    {BhistFailed}
    \cup [bhist_ok : {TRUE}, pend_time : 0..MaxBhistTime, run_time : 0..MaxBhistTime]

\* a probe that looks at the pending time last
lsf_driver_get_bhist_status_shell_pend_last(sample1, sample2) ==
    LET status0 == JOB_STAT_UNKWN
        status1 == IF sample1.run_time = sample2.run_time
                      /\ sample1.pend_time = sample2.pend_time
                   THEN JOB_STAT_DONE ELSE status0
        status2 == IF sample2.run_time > sample1.run_time
                   THEN JOB_STAT_RUN ELSE status1
        status3 == IF sample2.pend_time > sample1.pend_time
                   THEN JOB_STAT_PEND ELSE status2
    IN  IF ~sample1.bhist_ok THEN status0
        ELSE IF ~sample2.bhist_ok THEN status0
        ELSE status3

\* lsf_driver_get_bhist_status_shell, from its two samples; the second is
\* not taken when the first cannot be parsed
lsf_driver_get_bhist_status_shell(sample1, sample2) ==
    LET status0 == JOB_STAT_UNKWN
        status1 == IF sample1.run_time = sample2.run_time
                      /\ sample1.pend_time = sample2.pend_time
                   THEN JOB_STAT_DONE ELSE status0
        status2 == IF sample2.pend_time > sample1.pend_time
                   THEN JOB_STAT_PEND ELSE status1
        status3 == IF sample2.run_time > sample1.run_time
                   THEN JOB_STAT_RUN ELSE status2
    IN  IF ~sample1.bhist_ok THEN status0
        ELSE IF ~sample2.bhist_ok THEN status0
        ELSE status3

\* the number of times lsf_driver_get_bhist_status_shell runs bhist: it
\* returns after the first run when that cannot be parsed
lsf_driver_run_bhist_calls(sample1) ==
    IF ~sample1.bhist_ok THEN 1 ELSE 2

\* one call of spawn_blocking: the program and its arguments
Spawn(program, argv) == [program |-> program, argv |-> argv]

\* what the element behind the end of an argument array can be read as
Indeterminate == {NullPtr, <<"?">>}

\* lsf_driver_run_bhist: the command it spawns.  For the local shell the
\* array has one element and spawn_blocking is told of two; next is what is
\* read behind the array.
lsf_driver_run_bhist(d, job, next) ==
    IF d.submit_method = LSF_SUBMIT_REMOTE_SHELL
    THEN Spawn(d.rsh_cmd, <<d.remote_lsf_server,
                            d.bhist_cmd \o <<" ">> \o job.lsf_jobnr_char>>)
    ELSE Spawn(d.bjobs_cmd, <<job.lsf_jobnr_char, next>>)

\* lsf_driver_get_bhist_status_shell returns: both samples are taken, four
\* seconds apart, and touch nothing of the driver; result keeps the commands
\* that were run for them
Bhist(t, sample1, sample2) ==
    /\ Running
    /\ pc[t] = "bhist"
    /\ \E next \in Indeterminate :
          loc' = [loc EXCEPT
                     ![t].status = lsf_driver_get_bhist_status_shell(sample1, sample2),
                     ![t].result = [i \in 1..lsf_driver_run_bhist_calls(sample1) |->
                                       lsf_driver_run_bhist(driver, loc[t].job, next)]]
    /\ pc' = [pc EXCEPT ![t] = "cache_insert"]
    /\ UNCHANGED <<driver, now, exited, lsb_next, lsf_json, handles, ret, prov, omitted, final, last_set, row_scaling>>
    /\ UNCHANGED ncalls

\* a lookup that returns the status of the probe and does not keep it
StatusCacheDrop(t) ==
    /\ Running
    /\ pc[t] = "cache_insert"
    /\ ret' = [ret EXCEPT ![t] = ReturnStatus(loc[t].status)]
    /\ pc' = [pc EXCEPT ![t] = "status_done"]
    /\ UNCHANGED <<driver, prov, now, exited, lsb_next, lsf_json, handles, loc,
                   omitted, final, last_set, row_scaling>>
    /\ UNCHANGED ncalls

\* hash_insert_int(driver->bjobs_cache, job->lsf_jobnr_char, status), the
\* mutex released
StatusCacheInsert(t) ==
    /\ Running
    /\ pc[t] = "cache_insert"
    /\ driver' = [driver EXCEPT !.bjobs_cache =
                     hash_insert_int(@, loc[t].job.lsf_jobnr_char, loc[t].status)]
    /\ prov' = {p \in prov : p.key # loc[t].job.lsf_jobnr_char}
               \cup {[key |-> loc[t].job.lsf_jobnr_char, by |-> "bhist"]}
    /\ ret' = [ret EXCEPT ![t] = ReturnStatus(loc[t].status)]
    /\ pc' = [pc EXCEPT ![t] = "status_done"]
    /\ UNCHANGED <<now, exited, lsb_next, lsf_json, handles, loc, omitted, final, last_set, row_scaling>>
    /\ UNCHANGED ncalls

\* the caller takes the status
StatusReturn(t) ==
    /\ Running
    /\ pc[t] = "status_done"
    /\ pc' = [pc EXCEPT ![t] = "idle"]
    /\ loc' = [loc EXCEPT ![t] = NoLocals]
    /\ ret' = [ret EXCEPT ![t] = NoReturn]
    /\ final' = IF ret[t].job_status \in {JOB_QUEUE_DONE, JOB_QUEUE_EXIT}
                THEN final \cup {[key |-> loc[t].job.lsf_jobnr_char,
                                  job_status |-> ret[t].job_status]}
                ELSE final
    /\ UNCHANGED <<driver, now, exited, lsb_next, lsf_json, handles, prov, omitted,
                   last_set, row_scaling>>
    /\ UNCHANGED ncalls

GetStatus(t) ==
    \/ StatusLock(t)
    \/ \E f \in Listings : UpdateSpawn(t, f)
    \/ UpdateLine(t)
    \/ UpdateEnd(t)
    \/ StatusUnlock(t)
    \/ StatusHasKey(t)
    \/ StatusGetInt(t)
    \/ \E sample1, sample2 \in BhistSamples : Bhist(t, sample1, sample2)
    \/ StatusCacheInsert(t)
    \/ StatusReturn(t)


(***************************************************************************)
(* lsf_driver_set_option                                                   *)
(***************************************************************************)
SetOptionCall(t, option_key, value) ==
    /\ Running
    /\ pc[t] = "idle"
    /\ pc' = [pc EXCEPT ![t] = "set_option"]
    /\ loc' = [loc EXCEPT ![t] = [NoLocals EXCEPT !.key = option_key,
                                                 !.value = value]]
    /\ UNCHANGED <<driver, now, exited, lsb_next, lsf_json, handles, ret, prov, omitted, final, last_set, row_scaling>>

SetOption(t) ==
    /\ Running
    /\ pc[t] = "set_option"
    /\ driver' = lsf_driver_set_option(driver, loc[t].key, loc[t].value)
    /\ ret' = [ret EXCEPT ![t] =
                  [NoReturn EXCEPT !.null = FALSE,
                                   !.has_option = lsf_driver_has_option(loc[t].key)]]
    /\ pc' = [pc EXCEPT ![t] = "option_done"]
    /\ last_set' = [key |-> loc[t].key, value |-> loc[t].value]
    /\ UNCHANGED <<now, exited, lsb_next, lsf_json, handles, loc, prov,
                   omitted, final, row_scaling>>
    /\ UNCHANGED ncalls

\* lsf_driver_get_option
GetOptionCall(t, option_key) ==
    /\ Running
    /\ pc[t] = "idle"
    /\ pc' = [pc EXCEPT ![t] = "get_option"]
    /\ loc' = [loc EXCEPT ![t] = [NoLocals EXCEPT !.key = option_key]]
    /\ UNCHANGED <<driver, now, exited, lsb_next, lsf_json, handles, ret, prov,
                   omitted, final, last_set, row_scaling>>

GetOption(t) ==
    /\ Running
    /\ pc[t] = "get_option"
    /\ IF loc[t].key \in lsf_driver_get_option_keys
       THEN /\ ret' = [ret EXCEPT ![t] =
                          [NoReturn EXCEPT !.null = FALSE,
                                           !.value = lsf_driver_get_option(driver, loc[t].key)]]
            /\ pc' = [pc EXCEPT ![t] = "option_done"]
            /\ UNCHANGED exited
       ELSE /\ exited' = "util_abort: lsf_driver_get_option"
            /\ UNCHANGED <<pc, ret>>
    /\ UNCHANGED <<driver, now, lsb_next, lsf_json, handles, loc, prov, omitted,
                   final, last_set, row_scaling>>
    /\ UNCHANGED ncalls

OptionReturn(t) ==
    /\ Running
    /\ pc[t] = "option_done"
    /\ pc' = [pc EXCEPT ![t] = "idle"]
    /\ loc' = [loc EXCEPT ![t] = NoLocals]
    /\ ret' = [ret EXCEPT ![t] = NoReturn]
    /\ UNCHANGED <<driver, now, exited, lsb_next, lsf_json, handles, prov, omitted, final, last_set, row_scaling>>
    /\ UNCHANGED ncalls

\* the refresh intervals the callers of the concurrent model set
RefreshIntervals == {<<"0">>}


\* the steps of thread t inside a call it has made
Step(t) ==
    \/ Submit(t)
    \/ GetStatus(t)
    \/ SetOption(t)
    \/ OptionReturn(t)

\* a call that counts against the bound of the model, and one that does not
Counted(Call) == ncalls < MaxCalls /\ Call /\ ncalls' = ncalls + 1

Free(Call) == Call /\ UNCHANGED ncalls

\* Two threads submit, look up the status of the jobs they hold and shorten
\* the refresh interval, in any order; the submit calls are counted.
Next ==
    \/ Tick
    \/ \E t \in Threads :
        \/ \E run_path \in RunPaths : Counted(SubmitCall(t, run_path))
        \/ \E job \in handles : Free(GetStatusCall(t, job))
        \/ Free(GetStatusNull(t))
        \/ \E value \in RefreshIntervals : Free(SetOptionCall(t, LSF_BJOBS_TIMEOUT, value))
        \/ Step(t)

Spec == Init /\ [][Next]_vars

\* One thread submits again and again, until the process gives up.
NextSeq ==
    \/ \E run_path \in RunPaths : Free(SubmitCall(1, run_path))
    \/ Submit(1)

SpecSeq == Init /\ [][NextSeq]_vars

\* the values the option calls are made with
Strings == {NullPtr, <<"x">>}

OptionValues(option_key) ==
    IF option_key = LSF_SERVER
    THEN {NullPtr, LOCAL_LSF_SERVER, <<"l","o","c","a","l">>, NULL_LSF_SERVER,
          <<"n","u","l","l">>, <<"b","e">>, <<>>}
    ELSE IF option_key = LSF_DEBUG_OUTPUT THEN {<<"T","R","U","E">>, <<"x">>}
    ELSE IF option_key = LSF_SUBMIT_SLEEP THEN {<<"1">>, <<"x">>}
    ELSE IF option_key = LSF_EXCLUDE_HOST
    THEN {<<"a">>, <<"b",","," ","a">>, <<"a",","," ","a">>}
    ELSE IF option_key = LSF_BJOBS_TIMEOUT THEN {<<"0">>, <<"x">>}
    ELSE Strings

OptionKeys ==
    {LSF_RESOURCE, LSF_SERVER, LSF_QUEUE, LSF_LOGIN_SHELL, LSF_RSH_CMD,
     LSF_BSUB_CMD, LSF_BJOBS_CMD, LSF_BKILL_CMD, LSF_BHIST_CMD, LSF_DEBUG_OUTPUT,
     LSF_SUBMIT_SLEEP, LSF_EXCLUDE_HOST, LSF_BJOBS_TIMEOUT, LSF_PROJECT_CODE,
     "NO_SUCH_OPTION"}

\* One thread sets options, of every key, submits and looks up a status;
\* every call is counted.
NextOptions ==
    \/ \E option_key \in OptionKeys : \E value \in OptionValues(option_key) :
          Counted(SetOptionCall(1, option_key, value))
    \/ \E option_key \in OptionKeys : Counted(GetOptionCall(1, option_key))
    \/ \E run_path \in RunPaths : Counted(SubmitCall(1, run_path))
    \/ \E job \in handles : Counted(GetStatusCall(1, job))
    \/ GetOption(1)
    \/ Step(1)

SpecOptions == Init /\ [][NextOptions]_vars

\* the tokens of the listings of the sequential model: every token of
\* status_map and one that it does not have
AllTokens == DOMAIN status_map \cup {"FOOBAR"}

AllListings == [1..MaxJobId -> AllTokens \cup {NotListed}]

\* One thread submits, shortens the refresh interval, and looks up the status
\* of its jobs again and again while the clock moves on and the listings
\* report any token.
NextStatus ==
    \/ Tick
    \/ \E run_path \in RunPaths : Counted(SubmitCall(1, run_path))
    \/ Submit(1)
    \/ \E job \in handles : Free(GetStatusCall(1, job))
    \/ \E value \in RefreshIntervals : Free(SetOptionCall(1, LSF_BJOBS_TIMEOUT, value))
    \/ SetOption(1)
    \/ OptionReturn(1)
    \/ StatusLock(1)
    \/ \E f \in AllListings : UpdateSpawn(1, f)
    \/ UpdateLine(1)
    \/ UpdateEnd(1)
    \/ StatusUnlock(1)
    \/ StatusHasKey(1)
    \/ StatusGetInt(1)
    \/ \E sample1, sample2 \in BhistSamples : Bhist(1, sample1, sample2)
    \/ StatusCacheInsert(1)
    \/ StatusReturn(1)

SpecStatus == Init /\ [][NextStatus]_vars

\* the samples the probe is given when it is looked at on its own
ProbeSamples ==
    {BhistFailed}
    \cup [bhist_ok : {TRUE}, pend_time : 0..MaxCounter, run_time : 0..MaxCounter]

\* the state with one of the drivers Drivers, and thread 1 about to call a
\* function with one of the arguments Args
InitFrom(Drivers, Args) ==
    /\ driver \in Drivers
    /\ now = 0
    /\ exited = ""
    /\ lsb_next = 1
    /\ lsf_json = [p \in RunPaths |-> NullPtr]
    /\ handles = {}
    /\ ncalls = 0
    /\ pc = [t \in Threads |-> "idle"]
    /\ loc \in {[t \in Threads |-> IF t = 1 THEN [NoLocals EXCEPT !.args = a]
                                   ELSE NoLocals] : a \in Args}
    /\ ret = [t \in Threads |-> NoReturn]
    /\ prov = {}
    /\ omitted = {}
    /\ final = {}
    /\ last_set = [key |-> "", value |-> NoValue]
    /\ row_scaling = RowScaling

\* lsf_driver_get_bhist_status_shell, called with the two samples bhist
\* will give
ProbeCall ==
    /\ Running
    /\ pc[1] = "idle"
    /\ loc' = [loc EXCEPT ![1].result =
                  [status |-> lsf_driver_get_bhist_status_shell(
                                  loc[1].args.sample1, loc[1].args.sample2),
                   runs |-> lsf_driver_run_bhist_calls(loc[1].args.sample1)]]
    /\ pc' = [pc EXCEPT ![1] = "probe_done"]
    /\ UNCHANGED <<driver, now, exited, lsb_next, lsf_json, handles, ncalls,
                   ret, prov, omitted, final, last_set, row_scaling>>

\* the state after lsf_driver_alloc, with thread 1 about to call a function
\* with one of the arguments Args
InitWith(Args) == InitFrom({lsf_driver_alloc(0)}, Args)

InitBhist == InitWith([sample1 : ProbeSamples, sample2 : ProbeSamples])

NextBhist == ProbeCall

SpecBhist == InitBhist /\ [][NextBhist]_vars

(***************************************************************************)
(* The command builder: the argument list of the bsub command.             *)
(***************************************************************************)
\* sub is in s at index i
IsAt(s, sub, i) ==
    /\ i + Len(sub) - 1 <= Len(s)
    /\ SubSeq(s, i, i + Len(sub) - 1) = sub

\* strstr: the index of the first place sub is in s at, 0 when there is none
strstr(s, sub) ==
    IF \E i \in 1..Len(s) : IsAt(s, sub, i)
    THEN CHOOSE i \in 1..Len(s) :
             IsAt(s, sub, i) /\ \A j \in 1..(i - 1) : ~IsAt(s, sub, j)
    ELSE 0

\* ert::join
RECURSIVE join(_, _)
join(list, sep) ==
    IF list = <<>> THEN <<>>
    ELSE IF Len(list) = 1 THEN list[1]
    ELSE list[1] \o sep \o join(Tail(list), sep)

SelectOpen == <<"s","e","l","e","c","t","[">>

AndSep == <<" ","&","&"," ">>

\* alloc_composed_resource_request finds "select[" and no "]" behind it, and
\* calls util_abort
ComposeAborts(d) ==
    LET resreq == d.resource_request
        pos == strstr(resreq, SelectOpen)
    IN  /\ d.exclude_hosts # <<>>
        /\ resreq # NullPtr
        /\ pos # 0
        /\ strstr(SubSeq(resreq, pos, Len(resreq)), <<"]">>) = 0

\* alloc_composed_resource_request, when it does not abort: a request with no
\* "select[" gets " select[...]" at its end; in any other the first "]" behind
\* the first "select[" becomes a blank, and " && ...]" is put in front of it
alloc_composed_resource_request(d, select_list) ==
    LET resreq == d.resource_request
        excludes_string == join(select_list, AndSep)
        pos == strstr(resreq, SelectOpen)
    IN  IF pos = 0
        THEN resreq \o <<" ">> \o SelectOpen \o excludes_string \o <<"]">>
        ELSE LET endpos == pos - 1
                           + strstr(SubSeq(resreq, pos, Len(resreq)), <<"]">>)
                 before_size == endpos - 1
                 before == SubSeq(resreq, 1, before_size)
                 after == <<" ">> \o SubSeq(resreq, endpos + 1, Len(resreq))
             IN  before \o AndSep \o excludes_string \o <<"]">> \o after

\* the local req of alloc_quoted_resource_string: the request before it is
\* quoted, a null pointer when there is neither a template nor a host
req(d) ==
    IF d.exclude_hosts = <<>>
    THEN d.resource_request
    ELSE LET select_list ==
                 [i \in DOMAIN d.exclude_hosts |->
                     <<"h","n","a","m","e","!","=","'">>
                     \o d.exclude_hosts[i] \o <<"'">>]
         IN  IF d.resource_request # NullPtr
             THEN alloc_composed_resource_request(d, select_list)
             ELSE SelectOpen \o join(select_list, AndSep) \o <<"]">>

\* a builder that quotes the request whatever the submit method is
alloc_quoted_resource_string_always(d) ==
    IF req(d) = NullPtr THEN NullPtr
    ELSE <<"\"">> \o req(d) \o <<"\"">>

alloc_quoted_resource_string(d) ==
    IF req(d) = NullPtr THEN NullPtr
    ELSE IF d.submit_method = LSF_SUBMIT_REMOTE_SHELL
    THEN <<"\"">> \o req(d) \o <<"\"">>
    ELSE req(d)

\* a builder that puts the project code in front of the login shell
lsf_driver_alloc_cmd_project_first(d, lsf_stdout, job_name, submit_cmd, num_cpu, job_argv) ==
    LET quoted_resource_request == alloc_quoted_resource_string(d)
    IN  (IF d.submit_method = LSF_SUBMIT_REMOTE_SHELL
         THEN <<d.bsub_cmd>> ELSE <<>>)
        \o <<<<"-","o">>, lsf_stdout>>
        \o (IF d.queue_name # NullPtr
            THEN <<<<"-","q">>, d.queue_name>> ELSE <<>>)
        \o <<<<"-","J">>, job_name>>
        \o <<<<"-","n">>, sprintf_d(num_cpu)>>
        \o (IF quoted_resource_request # NullPtr
            THEN <<<<"-","R">>, quoted_resource_request>> ELSE <<>>)
        \o (IF d.project_code # NullPtr
            THEN <<<<"-","P">>, d.project_code>> ELSE <<>>)
        \o (IF d.login_shell # NullPtr
            THEN <<<<"-","L">>, d.login_shell>> ELSE <<>>)
        \o <<submit_cmd>>
        \o job_argv

\* lsf_driver_alloc_cmd: the stringlist argv after the last append
lsf_driver_alloc_cmd(d, lsf_stdout, job_name, submit_cmd, num_cpu, job_argv) ==
    LET quoted_resource_request == alloc_quoted_resource_string(d)
    IN  (IF d.submit_method = LSF_SUBMIT_REMOTE_SHELL
         THEN <<d.bsub_cmd>> ELSE <<>>)
        \o <<<<"-","o">>, lsf_stdout>>
        \o (IF d.queue_name # NullPtr
            THEN <<<<"-","q">>, d.queue_name>> ELSE <<>>)
        \o <<<<"-","J">>, job_name>>
        \o <<<<"-","n">>, sprintf_d(num_cpu)>>
        \o (IF quoted_resource_request # NullPtr
            THEN <<<<"-","R">>, quoted_resource_request>> ELSE <<>>)
        \o (IF d.login_shell # NullPtr
            THEN <<<<"-","L">>, d.login_shell>> ELSE <<>>)
        \o (IF d.project_code # NullPtr
            THEN <<<<"-","P">>, d.project_code>> ELSE <<>>)
        \o <<submit_cmd>>
        \o job_argv

\* the resource templates the builder is given: none, an empty one, one with
\* no select clause, and ones whose select clause is the only clause, the
\* first, the last, empty, or not closed
Templates ==
    {NullPtr,
     <<>>,
     <<"s","[","1","]">>,
     <<"s","e","l","e","c","t","[","A","]">>,
     <<"s","e","l","e","c","t","[","A"," ","&","&"," ","B","]">>,
     <<"s","e","l","e","c","t","[","]">>,
     <<"s","e","l","e","c","t","[","A","]"," ","s","[","1","]">>,
     <<"s","[","1","]"," ","s","e","l","e","c","t","[","A","]">>,
     <<"s","e","l","e","c","t","[","A">>}

HostNames == {<<Lower[i]>> : i \in 1..MaxHosts}

\* the lists of hosts add_exclude_hosts can leave: no host twice
HostLists ==
    UNION {{hosts \in [1..n -> HostNames] :
               \A i, j \in 1..n : hosts[i] = hosts[j] => i = j} : n \in 0..MaxHosts}

Configs ==
    [resource_request : Templates,
     exclude_hosts : HostLists,
     remote_lsf_server : {NullPtr, <<"b","e">>},
     queue_name : {NullPtr, <<"q">>},
     login_shell : {NullPtr, <<"l">>},
     project_code : {NullPtr, <<"p">>}]

\* the driver after one LSF_EXCLUDE_HOST option for each host, in order
RECURSIVE ExcludeEach(_, _)
ExcludeEach(d, hosts) ==
    IF hosts = <<>> THEN d
    ELSE ExcludeEach(lsf_driver_set_option(d, LSF_EXCLUDE_HOST, Head(hosts)),
                     Tail(hosts))

\* the driver lsf_driver_alloc returns, after the options of a configuration
\* were set
Configured(c) ==
    LET d1 == lsf_driver_set_option(lsf_driver_alloc(0), LSF_RESOURCE,
                                    c.resource_request)
        d2 == lsf_driver_set_option(d1, LSF_SERVER, c.remote_lsf_server)
        d3 == lsf_driver_set_option(d2, LSF_QUEUE, c.queue_name)
        d4 == lsf_driver_set_option(d3, LSF_LOGIN_SHELL, c.login_shell)
        d5 == lsf_driver_set_option(d4, LSF_PROJECT_CODE, c.project_code)
    IN  ExcludeEach(d5, c.exclude_hosts)

\* the arguments lsf_driver_alloc_cmd is called with
CmdArgs ==
    [lsf_stdout : {<<"o","u","t">>},
     job_name : {<<"j","o","b">>},
     submit_cmd : {<<"r","u","n">>},
     num_cpu : {1, 12},
     job_argv : {<<>>, <<<<"1">>, <<"2">>>>, <<<<"2">>, <<"1">>>>}]

\* lsf_driver_alloc_cmd, called by thread 1
AllocCmdCall ==
    /\ Running
    /\ pc[1] = "idle"
    /\ IF ComposeAborts(driver)
       THEN /\ exited' = "util_abort: alloc_composed_resource_request"
            /\ UNCHANGED <<pc, loc>>
       ELSE /\ loc' = [loc EXCEPT ![1].result =
                          [argv |-> lsf_driver_alloc_cmd(
                                        driver, loc[1].args.lsf_stdout,
                                        loc[1].args.job_name,
                                        loc[1].args.submit_cmd,
                                        loc[1].args.num_cpu,
                                        loc[1].args.job_argv),
                           req |-> req(driver)]]
            /\ pc' = [pc EXCEPT ![1] = "cmd_done"]
            /\ UNCHANGED exited
    /\ UNCHANGED <<driver, now, lsb_next, lsf_json, handles, ncalls,
                   ret, prov, omitted, final, last_set, row_scaling>>

InitCmd == InitFrom({Configured(c) : c \in Configs}, CmdArgs)

NextCmd == AllocCmdCall

SpecCmd == InitCmd /\ [][NextCmd]_vars

(***************************************************************************)
(* lsf_driver_kill_job                                                     *)
(***************************************************************************)
\* a kill that always runs the kill command itself
lsf_driver_kill_job_direct(d, job) ==
    <<Spawn(d.bkill_cmd, <<job.lsf_jobnr_char>>)>>

\* lsf_driver_kill_job: the commands it spawns, in order
lsf_driver_kill_job(d, job) ==
    IF d.submit_method = LSF_SUBMIT_REMOTE_SHELL
    THEN <<Spawn(d.rsh_cmd, <<d.remote_lsf_server,
                              d.bkill_cmd \o <<" ">> \o job.lsf_jobnr_char>>)>>
    ELSE IF d.submit_method = LSF_SUBMIT_LOCAL_SHELL
    THEN <<Spawn(d.bkill_cmd, <<job.lsf_jobnr_char>>)>>
    ELSE <<>>

\* lsf_driver_kill_job, called by thread t and run to its end
KillCall(t, job) ==
    /\ Running
    /\ pc[t] = "idle"
    /\ loc' = [loc EXCEPT ![t] = [NoLocals EXCEPT
                  !.job = job, !.result = lsf_driver_kill_job(driver, job)]]
    /\ pc' = [pc EXCEPT ![t] = "kill_done"]
    /\ UNCHANGED <<driver, now, exited, lsb_next, lsf_json, handles,
                   ret, prov, omitted, final, last_set, row_scaling>>

\* the caller of kill goes on
KillReturn(t) ==
    /\ Running
    /\ pc[t] = "kill_done"
    /\ pc' = [pc EXCEPT ![t] = "idle"]
    /\ loc' = [loc EXCEPT ![t] = NoLocals]
    /\ UNCHANGED <<driver, now, exited, lsb_next, lsf_json, handles,
                   ret, prov, omitted, final, last_set, row_scaling>>
    /\ UNCHANGED ncalls

\* the servers the kill model is configured with
KillServers == {LOCAL_LSF_SERVER, <<"b","e">>}

\* Thread 1 chooses the server, submits and looks up statuses; thread 2 kills
\* the jobs thread 1 was given.
NextKill ==
    \/ \E value \in KillServers : Counted(SetOptionCall(1, LSF_SERVER, value))
    \/ \E run_path \in RunPaths : Counted(SubmitCall(1, run_path))
    \/ \E job \in handles : Free(GetStatusCall(1, job))
    \/ Step(1)
    \/ \E job \in handles : Free(KillCall(2, job))
    \/ KillReturn(2)

SpecKill == Init /\ [][NextKill]_vars

(***************************************************************************)
(* The calls test_row_scaling.cpp makes on a RowScaling object.            *)
(***************************************************************************)
\* the indices and the factors of the calls: one index and two factors are
\* outside what is taken
RowIndices == -1..MaxIndex

RowValues == -1..(One + 1)

RowData == UNION {[1..n -> 0..One] : n \in 0..(MaxIndex + 1)}

\* row_scaling.assign(index, value): a factor outside [0, 1] is an
\* invalid_argument and a negative index an out_of_range; with both, either
RowScalingAssign(index, value) ==
    /\ Running
    /\ \/ /\ index >= 0
          /\ value >= 0 /\ value <= One
          /\ row_scaling' = [m_data |-> RowScaling_assign(row_scaling, index, value),
                             call |-> [NoCall EXCEPT !.before = RowScaling_size(row_scaling), !.op = "assign",
                                          !.index = index, !.value = value],
                             thrown |-> "", read |-> 0]
       \/ /\ value < 0 \/ value > One
          /\ row_scaling' = [row_scaling EXCEPT
                                !.call = [NoCall EXCEPT !.before = RowScaling_size(row_scaling), !.op = "assign",
                                             !.index = index, !.value = value],
                                !.thrown = "std::invalid_argument", !.read = 0]
       \/ /\ index < 0
          /\ row_scaling' = [row_scaling EXCEPT
                                !.call = [NoCall EXCEPT !.before = RowScaling_size(row_scaling), !.op = "assign",
                                             !.index = index, !.value = value],
                                !.thrown = "std::out_of_range", !.read = 0]
    /\ UNCHANGED <<driver, now, exited, lsb_next, lsf_json, handles, ncalls,
                   pc, loc, ret, prov, omitted, final, last_set>>

\* row_scaling.assign_vector(data, size), with factors in [0, 1]
RowScalingAssignVector(data) ==
    /\ Running
    /\ row_scaling' = [m_data |-> RowScaling_assign_vector(row_scaling, data),
                       call |-> [NoCall EXCEPT !.before = RowScaling_size(row_scaling), !.op = "assign_vector", !.data = data],
                       thrown |-> "", read |-> 0]
    /\ UNCHANGED <<driver, now, exited, lsb_next, lsf_json, handles, ncalls,
                   pc, loc, ret, prov, omitted, final, last_set>>

\* row_scaling[index]
RowScalingIndex(index) ==
    /\ Running
    /\ row_scaling' =
           [row_scaling EXCEPT
               !.call = [NoCall EXCEPT !.before = RowScaling_size(row_scaling), !.op = "operator[]", !.index = index],
               !.thrown = IF index >= 0 /\ index < RowScaling_size(row_scaling)
                          THEN "" ELSE "std::out_of_range",
               !.read = IF index >= 0 /\ index < RowScaling_size(row_scaling)
                        THEN row_scaling.m_data[index + 1] ELSE 0]
    /\ UNCHANGED <<driver, now, exited, lsb_next, lsf_json, handles, ncalls,
                   pc, loc, ret, prov, omitted, final, last_set>>

NextRowScaling ==
    \/ \E index \in RowIndices, value \in RowValues : RowScalingAssign(index, value)
    \/ \E data \in RowData : RowScalingAssignVector(data)
    \/ \E index \in RowIndices \cup {MaxIndex + 1} : RowScalingIndex(index)

SpecRowScaling == Init /\ [][NextRowScaling]_vars

(***************************************************************************)
(* Concurrent submit, get_status and kill calls, with fair threads.        *)
(***************************************************************************)
\* Both threads submit, look up, kill and set the refresh interval.
NextLive ==
    \/ \E t \in Threads :
        \/ \E run_path \in RunPaths : Counted(SubmitCall(t, run_path))
        \/ \E job \in handles : Free(GetStatusCall(t, job))
        \/ \E job \in handles : Free(KillCall(t, job))
        \/ \E value \in RefreshIntervals : Free(SetOptionCall(t, LSF_BJOBS_TIMEOUT, value))
        \/ Step(t)
        \/ KillReturn(t)

\* A thread inside a call goes on: every external command returns, and a
\* mutex that is free again and again is given to a thread that waits for it.
Fairness ==
    \A t \in Threads : SF_vars(Step(t)) /\ WF_vars(KillReturn(t))

SpecLive == Init /\ [][NextLive]_vars /\ Fairness

(***************************************************************************)
(* The claims.                                                             *)
(***************************************************************************)
\* where a thread is between the lock and the unlock of submit_lock
SubmitSection == {"submit_shell", "submit_register", "submit_unlock"}

\* where a thread is inside lsf_driver_submit_job
SubmitPcs == {"submit_lock", "submit_result", "submit_error"} \cup SubmitSection

\* where a thread is inside lsf_driver_get_job_status
StatusPcs == {"bjobs_lock", "bjobs_spawn", "bjobs_lines", "bjobs_unlock",
              "has_key", "get_int", "bhist", "cache_insert"}

\* where a thread is inside lsf_driver_get_bhist_status_shell, or past it
ProbePcs == {"bhist", "cache_insert"}

CacheKeys == {e.key : e \in driver.bjobs_cache}

\* C1: at most one thread at a time is between the lock and the unlock of
\* submit, where the command is built and run and the job put in my_jobs; the
\* thread that is there holds submit_lock.
C1_SubmitsSerialized ==
    /\ \A t1, t2 \in Threads :
          pc[t1] \in SubmitSection /\ pc[t2] \in SubmitSection => t1 = t2
    /\ \A t \in Threads : pc[t] \in SubmitSection => driver.submit_lock = t

\* C1: one thread registers its job while the other waits for the lock
C1_Witness ==
    \E t1, t2 \in Threads : pc[t1] = "submit_register" /\ pc[t2] = "submit_lock"

\* C2: a job of my_jobs that every listing made since it was accepted has
\* reported with a token of status_map is never probed with bhist.
C2_ListedJobNeverProbed ==
    \A t \in Threads :
        pc[t] \in ProbePcs /\ loc[t].job.lsf_jobnr_char \in driver.my_jobs
            => loc[t].job.lsf_jobnr \in omitted

\* C3: the status of the bhist probe never replaces a cache entry that an
\* update of the table, since completed, wrote for the same job.
C3_ProbeKeepsListedStatus ==
    [][\A t \in Threads :
          pc[t] = "cache_insert" /\ pc'[t] = "status_done"
              => [key |-> loc[t].job.lsf_jobnr_char, by |-> "bjobs_done"] \notin prov]_vars

\* C4: submit never holds or waits for bjobs_mutex and get_status never holds
\* or waits for submit_lock: a thread in submit can take its next step
\* whenever submit_lock allows it, whoever holds bjobs_mutex, and a thread in
\* get_status whenever bjobs_mutex allows it, whoever holds submit_lock.
C4_LocksIndependent ==
    \A t \in Threads :
        /\ pc[t] \in SubmitPcs => driver.bjobs_mutex # t
        /\ pc[t] \in StatusPcs => driver.submit_lock # t
        /\ Running /\ pc[t] \in SubmitPcs
              /\ (pc[t] = "submit_lock" => driver.submit_lock = NoThread)
              => ENABLED Submit(t)
        /\ Running /\ pc[t] \in StatusPcs
              /\ (pc[t] = "bjobs_lock" => driver.bjobs_mutex = NoThread)
              => ENABLED GetStatus(t)

\* C4: one thread waits for the listing it updates the table from, holding
\* bjobs_mutex, while the other is in a submission, holding submit_lock
C4_Witness ==
    \E t1, t2 \in Threads :
        /\ pc[t1] = "bjobs_spawn" /\ driver.bjobs_mutex = t1
        /\ pc[t2] = "submit_shell" /\ driver.submit_lock = t2

\* C5: of the submissions one thread makes one after the other, the failed
\* one that brings error_count to max_error_count terminates the process, each
\* failed one before it returns null and terminates nothing, and one that
\* succeeds neither terminates the process nor changes error_count, which
\* nothing else changes.
C5_RetryBudget ==
    /\ [](driver.error_count <= driver.max_error_count)
    /\ []((exited = "util_exit: submit errors")
             <=> (driver.error_count = driver.max_error_count))
    /\ [][/\ pc[1] = "submit_error"
             => /\ driver'.error_count = driver.error_count + 1
                /\ IF driver.error_count + 1 = driver.max_error_count
                   THEN exited' = "util_exit: submit errors"
                   ELSE exited' = "" /\ pc'[1] = "submit_done" /\ ret'[1].null
          /\ pc[1] # "submit_error"
             => driver'.error_count = driver.error_count
          /\ pc[1] = "submit_result" /\ loc[1].job.lsf_jobnr > 0
             => exited' = "" /\ pc'[1] = "submit_done" /\ ~ret'[1].null]_vars

\* C5: the process has given up at the maximum, after a submission succeeded
C5_Witness ==
    /\ exited = "util_exit: submit errors"
    /\ driver.error_count = MAX_ERROR_COUNT
    /\ handles # {}

\* C6: submit returns a job handle exactly when the id parsed from the
\* output of the submit command is above 0; the handle has that id and its
\* decimal string, and the receipt of the run path holds that id; with the id
\* 0 submit returns null, and only a submit that returns a handle writes a
\* receipt.
C6_HandleIffId ==
    [][/\ \A t \in Threads :
             pc[t] \in {"submit_result", "submit_error"} /\ pc'[t] = "submit_done"
                => LET id == loc[t].job.lsf_jobnr
                   IN  /\ ~ret'[t].null <=> id > 0
                       /\ id > 0 => /\ ret'[t].job.lsf_jobnr = id
                                    /\ DigitsValue(ret'[t].job.lsf_jobnr_char) = id
                                    /\ lsf_json'[loc[t].run_path] = LsfJson(id)
                       /\ id = 0 => lsf_json' = lsf_json
       /\ lsf_json' # lsf_json
             => \E t \in Threads : /\ pc[t] = "submit_result"
                                   /\ pc'[t] = "submit_done"
                                   /\ ~ret'[t].null]_vars

\* C6: one submit returns the handle of job 1, whose receipt is written,
\* and the other returns null
C6_Witness ==
    \E t1, t2 \in Threads :
        /\ pc[t1] = "submit_done" /\ ret[t1].job.lsf_jobnr = 1
        /\ lsf_json[loc[t1].run_path] = LsfJson(1)
        /\ pc[t2] = "submit_done" /\ ret[t2].null

\* C8: a driver whose server option has never been set has the submit method
\* LSF_SUBMIT_INVALID, and no submit on it gets as far as the submit command.
C8_UnconfiguredIsInvalid ==
    driver.remote_lsf_server = NullPtr
        => /\ driver.submit_method = LSF_SUBMIT_INVALID
           /\ \A t \in Threads : pc[t] \notin SubmitPcs \cup {"submit_done"}

\* the same string but for the case of its letters
SameButCase(s1, s2) ==
    /\ Len(s1) = Len(s2)
    /\ \A i \in DOMAIN s1 :
          \/ s1[i] = s2[i]
          \/ \E k \in DOMAIN Lower : {s1[i], s2[i]} = {Lower[k], Upper[k]}

\* C9 as stated: only set_option of the server key changes the submit method;
\* the value LOCAL selects the local shell, any other non-empty value but NULL
\* the remote shell and is recorded as the server, and a null pointer or the
\* value NULL leaves the method as it is.
C9_ServerSelectsMethod ==
    [][/\ driver'.submit_method # driver.submit_method
             => pc[1] = "set_option" /\ loc[1].key = LSF_SERVER
       /\ pc[1] = "set_option" /\ loc[1].key = LSF_SERVER
             => LET value == loc[1].value
                IN  IF value = NullPtr \/ value = NULL_LSF_SERVER
                    THEN driver'.submit_method = driver.submit_method
                    ELSE IF value = LOCAL_LSF_SERVER
                    THEN driver'.submit_method = LSF_SUBMIT_LOCAL_SHELL
                    ELSE IF value # <<>>
                    THEN /\ driver'.submit_method = LSF_SUBMIT_REMOTE_SHELL
                         /\ driver'.remote_lsf_server = value
                    ELSE TRUE]_vars

\* C9, amended: the value is compared with LOCAL and NULL without regard to
\* the case of its letters.
C9_ServerSelectsMethodAnyCase ==
    [][/\ driver'.submit_method # driver.submit_method
             => pc[1] = "set_option" /\ loc[1].key = LSF_SERVER
       /\ pc[1] = "set_option" /\ loc[1].key = LSF_SERVER
             => LET value == loc[1].value
                IN  IF value = NullPtr \/ SameButCase(value, NULL_LSF_SERVER)
                    THEN driver'.submit_method = driver.submit_method
                    ELSE IF SameButCase(value, LOCAL_LSF_SERVER)
                    THEN driver'.submit_method = LSF_SUBMIT_LOCAL_SHELL
                    ELSE IF value # <<>>
                    THEN /\ driver'.submit_method = LSF_SUBMIT_REMOTE_SHELL
                         /\ driver'.remote_lsf_server = value
                    ELSE TRUE]_vars

\* C9: the server has been set to "be" and then to "local", and the driver
\* uses the local shell
C9_Witness ==
    /\ pc[1] = "option_done"
    /\ loc[1].key = LSF_SERVER
    /\ loc[1].value = <<"l","o","c","a","l">>
    /\ driver.remote_lsf_server = <<"l","o","c","a","l">>
    /\ driver.submit_method = LSF_SUBMIT_LOCAL_SHELL
    /\ ncalls = MaxCalls

\* C10: get_status updates the table exactly when more than the refresh
\* interval has passed since the last update or the key of the job is not in
\* the cache; the table is updated in no other way, and the time of the last
\* update is set at the end of every update and at no other time.
C10_RefreshPredicate ==
    [][\A t \in Threads :
          /\ pc[t] = "bjobs_lock" /\ pc'[t] # "bjobs_lock"
                => /\ pc'[t] \in {"bjobs_spawn", "bjobs_unlock"}
                   /\ pc'[t] = "bjobs_spawn"
                         <=> \/ now - driver.last_bjobs_update
                                    > driver.bjobs_refresh_interval
                             \/ loc[t].job.lsf_jobnr_char \notin CacheKeys
          /\ pc'[t] = "bjobs_spawn" => pc[t] \in {"bjobs_lock", "bjobs_spawn"}
          /\ pc'[t] = "bjobs_lines" => pc[t] \in {"bjobs_spawn", "bjobs_lines"}
          /\ pc[t] = "bjobs_lines" /\ pc'[t] # "bjobs_lines"
                => pc'[t] = "bjobs_unlock" /\ driver'.last_bjobs_update = now
          /\ driver'.last_bjobs_update # driver.last_bjobs_update
                => \E u \in Threads : pc[u] = "bjobs_lines" /\ pc'[u] = "bjobs_unlock"]_vars

\* C10: a thread updates the table for a job whose key a completed update
\* left in the cache, because the interval has passed
C10_Witness ==
    \E t \in Threads :
        /\ pc[t] = "bjobs_spawn"
        /\ [key |-> loc[t].job.lsf_jobnr_char, by |-> "bjobs_done"] \in prov
        /\ now - driver.last_bjobs_update > driver.bjobs_refresh_interval

\* a thread that reads, as the next line of its listing, a job of my_jobs
\* with a token that status_map does not have
ReadsUnknownToken(t) ==
    /\ pc[t] = "bjobs_lines"
    /\ loc[t].lines # <<>>
    /\ sprintf_d(Head(loc[t].lines).job_id_int) \in driver.my_jobs
    /\ Head(loc[t].lines).status \notin DOMAIN status_map

\* C11: the update of the table that reads, for a job of my_jobs, a token
\* that status_map does not have terminates the process and puts nothing in
\* the cache; after the process has terminated no call returns and the cache
\* stays as it is.
C11_UnknownTokenIsFatal ==
    [][/\ \A t \in Threads :
             ReadsUnknownToken(t) /\ loc'[t].lines # loc[t].lines
                => /\ exited' = "util_exit: lsf_status not recognized"
                   /\ driver'.bjobs_cache = driver.bjobs_cache
                   /\ pc' = pc /\ ret' = ret
       /\ exited # "" => UNCHANGED <<driver, pc, ret>>]_vars

\* C11: the process has terminated on the token of job 1, which has no entry
\* in the cache
C11_Witness ==
    /\ exited = "util_exit: lsf_status not recognized"
    /\ <<"1">> \in driver.my_jobs
    /\ <<"1">> \notin CacheKeys
    /\ \E t \in Threads : pc[t] = "bjobs_lines"

\* C12: every code the update of the table or the bhist probe can put in the
\* cache has a job status: no lookup of a job, whatever token of status_map
\* it is listed with, ends in the runtime error of lsf_driver_convert_status.
C12_ListedStatusIsDefined ==
    \A t \in Threads :
        pc[t] = "status_done" => ret[t].job_status # RuntimeError

\* C13: once a lookup has returned JOB_QUEUE_DONE or JOB_QUEUE_EXIT for a
\* job, every later lookup of that job returns the same status.
C13_TerminalStatusStays ==
    pc[1] = "status_done"
        => \A e \in final :
               e.key = loc[1].job.lsf_jobnr_char => ret[1].job_status = e.job_status

\* C14: the status of the bhist probe is JOB_STAT_UNKWN when either sample
\* cannot be parsed; else JOB_STAT_RUN when the run time grew, whatever the
\* pending time did; else JOB_STAT_PEND when the pending time grew; else
\* JOB_STAT_DONE when neither changed; else JOB_STAT_UNKWN.  bhist is run
\* once when its first output cannot be parsed.
C14_ProbeTable ==
    pc[1] = "probe_done"
        => LET s1 == loc[1].args.sample1
               s2 == loc[1].args.sample2
           IN  /\ loc[1].result.status =
                     (IF ~s1.bhist_ok \/ ~s2.bhist_ok THEN JOB_STAT_UNKWN
                      ELSE IF s2.run_time > s1.run_time THEN JOB_STAT_RUN
                      ELSE IF s2.pend_time > s1.pend_time THEN JOB_STAT_PEND
                      ELSE IF s2.run_time = s1.run_time
                              /\ s2.pend_time = s1.pend_time THEN JOB_STAT_DONE
                      ELSE JOB_STAT_UNKWN)
               /\ ~s1.bhist_ok => loc[1].result.runs = 1

\* C14: both times grew between the samples, and the probe says RUN
C14_Witness ==
    /\ pc[1] = "probe_done"
    /\ loc[1].args.sample1.bhist_ok /\ loc[1].args.sample2.bhist_ok
    /\ loc[1].args.sample2.run_time > loc[1].args.sample1.run_time
    /\ loc[1].args.sample2.pend_time > loc[1].args.sample1.pend_time
    /\ loc[1].result.status = JOB_STAT_RUN

\* the option keys the driver documents
DocumentedKeys ==
    {LSF_QUEUE, LSF_RESOURCE, LSF_SERVER, LSF_LOGIN_SHELL, LSF_RSH_CMD,
     LSF_BSUB_CMD, LSF_BJOBS_CMD, LSF_BKILL_CMD, LSF_BHIST_CMD,
     LSF_DEBUG_OUTPUT, LSF_SUBMIT_SLEEP, LSF_EXCLUDE_HOST, LSF_BJOBS_TIMEOUT,
     LSF_PROJECT_CODE}

\* C15: set_option with a key that is not documented returns false and leaves
\* the driver as it is; get_option with such a key aborts.
C15_UnknownKeyRejected ==
    [][/\ pc[1] = "set_option" /\ pc'[1] # "set_option"
          /\ loc[1].key \notin DocumentedKeys
             => /\ driver' = driver
                /\ ~ret'[1].has_option
                /\ exited' = ""
       /\ pc[1] = "get_option" /\ loc[1].key \notin DocumentedKeys
             => exited' = "util_abort: lsf_driver_get_option"]_vars

\* C15: a set_option with a key that is not documented has returned false
C15_Witness ==
    /\ pc[1] = "option_done"
    /\ last_set.key = "NO_SUCH_OPTION"
    /\ loc[1].key = "NO_SUCH_OPTION"
    /\ ~ret[1].has_option
    /\ driver = lsf_driver_alloc(0)

\* a value an option can hold and give back as it was set: a string, which
\* for the refresh interval is a decimal number
KeepableValue(option_key, value) ==
    /\ value # NullPtr
    /\ option_key = LSF_BJOBS_TIMEOUT
          => util_sscanf_int_ok(value) /\ sprintf_d(DigitsValue(value)) = value

\* C16: set_option accepts every documented key, and the get_option of the
\* key that was last set does not abort and returns the value it was set to.
C16_OptionRoundTrip ==
    [][/\ pc[1] = "set_option" /\ pc'[1] # "set_option"
          /\ loc[1].key \in DocumentedKeys
             => ret'[1].has_option
       /\ pc[1] = "get_option" /\ loc[1].key \in DocumentedKeys
          /\ last_set.key = loc[1].key
          /\ KeepableValue(last_set.key, last_set.value)
             => /\ exited' = ""
                /\ pc'[1] = "option_done"
                /\ ret'[1].value = last_set.value]_vars

\* the elements of a sequence
Range(seq) == {seq[i] : i \in DOMAIN seq}

\* a sequence in which nothing occurs twice
NoDuplicates(seq) == \A i, j \in DOMAIN seq : seq[i] = seq[j] => i = j

\* where x first occurs in seq
FirstIndex(seq, x) == CHOOSE i \in DOMAIN seq : seq[i] = x /\ \A j \in 1..(i - 1) : seq[j] # x

\* C17: the list of excluded hosts never holds a host twice; an addition
\* keeps the hosts that were there, in their places, and puts the new hosts
\* of the added list behind them in the order they first occur in it, so that
\* the list holds every host ever added in the order of first addition; an
\* addition of hosts that are all there leaves the list as it is; nothing
\* else changes the list.
C17_ExcludeHostsKept ==
    /\ [](NoDuplicates(driver.exclude_hosts))
    /\ [][LET old == driver.exclude_hosts
              new == driver'.exclude_hosts
              added == stringlist_alloc_from_split(loc[1].value)
          IN  IF pc[1] = "set_option" /\ pc'[1] # "set_option"
                 /\ loc[1].key = LSF_EXCLUDE_HOST
              THEN /\ Len(new) >= Len(old)
                   /\ SubSeq(new, 1, Len(old)) = old
                   /\ Range(new) = Range(old) \cup Range(added)
                   /\ \A i, j \in (Len(old) + 1)..Len(new) :
                         i < j => FirstIndex(added, new[i]) < FirstIndex(added, new[j])
                   /\ Range(added) \subseteq Range(old) => new = old
              ELSE new = old]_vars

\* C17: the host a was added, and then the list "b, a": the list is a, b
C17_Witness ==
    /\ pc[1] = "option_done"
    /\ last_set = [key |-> LSF_EXCLUDE_HOST, value |-> <<"b",","," ","a">>]
    /\ driver.exclude_hosts = << <<"a">>, <<"b">> >>

\* a flag and its value, when there is a value
Flag(flag, value) == IF value = NullPtr THEN <<>> ELSE <<flag, value>>

\* C18: the argument list is, behind the bsub command a remote submit starts
\* with, -o and the output path, -q and the queue if one is set, -J and the
\* job name, -n and the core count, -R and the resource request if there is
\* one, -L and the login shell if one is set, -P and the project code if one
\* is set, the submit command, and its arguments in their order; the list is
\* a function of the driver and the arguments, and building it leaves the
\* driver as it was.
C18_ArgvOrder ==
    /\ [](pc[1] = "cmd_done" =>
            LET a == loc[1].args
            IN  loc[1].result.argv =
                    (IF driver.submit_method = LSF_SUBMIT_REMOTE_SHELL
                     THEN <<driver.bsub_cmd>> ELSE <<>>)
                    \o Flag(<<"-","o">>, a.lsf_stdout)
                    \o Flag(<<"-","q">>, driver.queue_name)
                    \o Flag(<<"-","J">>, a.job_name)
                    \o Flag(<<"-","n">>, sprintf_d(a.num_cpu))
                    \o Flag(<<"-","R">>, alloc_quoted_resource_string(driver))
                    \o Flag(<<"-","L">>, driver.login_shell)
                    \o Flag(<<"-","P">>, driver.project_code)
                    \o <<a.submit_cmd>> \o a.job_argv)
    /\ [][AllocCmdCall => driver' = driver]_vars

\* C18: a list was built with every flag in it and two arguments behind the
\* submit command
C18_Witness ==
    /\ pc[1] = "cmd_done"
    /\ driver.queue_name # NullPtr
    /\ driver.login_shell # NullPtr
    /\ driver.project_code # NullPtr
    /\ req(driver) # NullPtr
    /\ Len(loc[1].args.job_argv) = 2
    /\ Len(loc[1].result.argv) = 17

\* the argument behind the -R flag of an argument list that has one
ResourceArg(argv) ==
    argv[(CHOOSE i \in DOMAIN argv : argv[i] = <<"-","R">>) + 1]

\* a string that starts and ends with a double quote
Quoted(s) == Len(s) >= 2 /\ s[1] = "\"" /\ s[Len(s)] = "\""

\* C19: whenever there is a resource request, with or without a template and
\* with or without excluded hosts, the argument behind -R is the request
\* between two double quotes if the submit method is the remote shell, and
\* the request itself, with no quotes, if it is not.
C19_QuotedIffRemote ==
    (pc[1] = "cmd_done" /\ loc[1].result.req # NullPtr) =>
        LET arg == ResourceArg(loc[1].result.argv)
        IN  /\ Quoted(arg) <=> driver.submit_method = LSF_SUBMIT_REMOTE_SHELL
            /\ driver.submit_method = LSF_SUBMIT_REMOTE_SHELL =>
                   arg = <<"\"">> \o loc[1].result.req \o <<"\"">>
            /\ driver.submit_method = LSF_SUBMIT_LOCAL_SHELL =>
                   arg = loc[1].result.req

\* C19: a list was built for the local shell from a template and two excluded
\* hosts, and its request is not quoted
C19_Witness ==
    /\ pc[1] = "cmd_done"
    /\ driver.submit_method = LSF_SUBMIT_LOCAL_SHELL
    /\ driver.resource_request # NullPtr
    /\ Len(driver.exclude_hosts) = 2
    /\ ~Quoted(ResourceArg(loc[1].result.argv))

\* a string without the blanks at its start and at its end
RECURSIVE Trim(_)
Trim(s) ==
    IF s = <<>> THEN s
    ELSE IF Head(s) = " " THEN Trim(Tail(s))
    ELSE IF s[Len(s)] = " " THEN Trim(SubSeq(s, 1, Len(s) - 1))
    ELSE s

\* the pieces of a string between the separators
RECURSIVE Split(_, _)
Split(s, sep) ==
    LET i == strstr(s, sep)
    IN  IF i = 0 THEN <<s>>
        ELSE <<SubSeq(s, 1, i - 1)>>
             \o Split(SubSeq(s, i + Len(sep), Len(s)), sep)

\* the clauses name[body] of a resource string, in order
RECURSIVE Clauses(_)
Clauses(s) ==
    LET t == Trim(s)
        open == strstr(t, <<"[">>)
        close == strstr(t, <<"]">>)
    IN  IF open = 0 \/ close < open THEN <<>>
        ELSE <<[name |-> SubSeq(t, 1, open - 1),
                body |-> SubSeq(t, open + 1, close - 1)]>>
             \o Clauses(SubSeq(t, close + 1, Len(t)))

\* the predicates of the body of a selection clause: the operands of its &&
Predicates(body) ==
    IF Trim(body) = <<>> THEN <<>>
    ELSE LET parts == Split(body, <<"&","&">>)
         IN  [i \in DOMAIN parts |-> Trim(parts[i])]

IsSelection(clause) == clause.name = <<"s","e","l","e","c","t">>

IsOtherClause(clause) == ~IsSelection(clause)

\* the predicate that excludes a host
ExclusionPredicate(host) == <<"h","n","a","m","e","!","=","'">> \o host \o <<"'">>

\* C20: with a host excluded, the composed request has one selection clause;
\* its predicates are the predicates of the template's selection clause, if
\* it has one, and then one exclusion predicate for each host in the order of
\* the list; the clauses that are no selection are those of the template.
C20_OneSelectionClause ==
    (pc[1] = "cmd_done" /\ driver.exclude_hosts # <<>>) =>
        LET template == IF driver.resource_request = NullPtr THEN <<>>
                        ELSE driver.resource_request
            given == SelectSeq(Clauses(template), IsSelection)
            original == IF given = <<>> THEN <<>>
                        ELSE Predicates(given[1].body)
            composed == Clauses(loc[1].result.req)
            selection == SelectSeq(composed, IsSelection)
        IN  /\ Len(selection) = 1
            /\ Predicates(selection[1].body) =
                   original \o [i \in DOMAIN driver.exclude_hosts |->
                                   ExclusionPredicate(driver.exclude_hosts[i])]
            /\ SelectSeq(composed, IsOtherClause) =
                   SelectSeq(Clauses(template), IsOtherClause)

\* thread t runs lsf_driver_kill_job in this step
Kills(t) == pc[t] = "idle" /\ pc'[t] = "kill_done"

\* C21: a kill spawns one command: under the remote shell the rsh command
\* with the server and "bkill <id>", under the local shell the kill command
\* with the id; it takes no mutex, and the cache, my_jobs, the error count,
\* the time of the last update and the job handles are as they were; no
\* listing or history command follows.
C21_KillFrame ==
    [][\A t \in Threads : Kills(t) =>
          LET id == loc'[t].job.lsf_jobnr_char
          IN  /\ loc'[t].result =
                     <<IF driver.submit_method = LSF_SUBMIT_REMOTE_SHELL
                       THEN Spawn(driver.rsh_cmd,
                                  <<driver.remote_lsf_server,
                                    driver.bkill_cmd \o <<" ">> \o id>>)
                       ELSE Spawn(driver.bkill_cmd, <<id>>)>>
              /\ driver'.submit_lock = driver.submit_lock
              /\ driver'.bjobs_mutex = driver.bjobs_mutex
              /\ driver'.bjobs_cache = driver.bjobs_cache
              /\ driver'.my_jobs = driver.my_jobs
              /\ driver'.error_count = driver.error_count
              /\ driver'.last_bjobs_update = driver.last_bjobs_update
              /\ handles' = handles
              /\ loc'[t].job \in handles]_vars

\* C21: a job was killed through the remote shell while the other thread held
\* the mutex of the cache
C21_Witness ==
    /\ pc[2] = "kill_done"
    /\ driver.submit_method = LSF_SUBMIT_REMOTE_SHELL
    /\ driver.bjobs_mutex = 1
    /\ Len(loc[2].result) = 1
    /\ loc[2].result[1].program = driver.rsh_cmd

\* C22: a RowScaling object has size 0 until a call is made on it.  An assign
\* with an index of 0 or more and a factor in [0, 1] makes the element of the
\* index the factor and the size the index plus one or more, the index plus
\* one on an empty object.  An assign_vector of n factors makes the size n,
\* whatever it was.  An assign with a negative index throws out_of_range and
\* one with a factor outside [0, 1] invalid_argument; an index outside
\* [0, size) throws out_of_range, and any other reads the element.
C22_RowScaling ==
    LET call == row_scaling.call
        size == RowScaling_size(row_scaling)
        InRange(value) == value >= 0 /\ value <= One
    IN  /\ call.op = "" => size = 0
        /\ (call.op = "assign" /\ call.index >= 0 /\ InRange(call.value)) =>
               /\ row_scaling.thrown = ""
               /\ row_scaling.m_data[call.index + 1] = call.value
               /\ size >= call.index + 1
               /\ call.before = 0 => size = call.index + 1
        /\ (call.op = "assign" /\ call.index < 0) =>
               row_scaling.thrown \in
                   {"std::out_of_range"}
                   \cup (IF InRange(call.value) THEN {} ELSE {"std::invalid_argument"})
        /\ (call.op = "assign" /\ ~InRange(call.value)) =>
               row_scaling.thrown \in
                   {"std::invalid_argument"}
                   \cup (IF call.index >= 0 THEN {} ELSE {"std::out_of_range"})
        /\ call.op = "assign_vector" =>
               /\ row_scaling.thrown = ""
               /\ size = Len(call.data)
        /\ call.op = "operator[]" =>
               IF call.index >= 0 /\ call.index < size
               THEN /\ row_scaling.thrown = ""
                    /\ row_scaling.read = row_scaling.m_data[call.index + 1]
               ELSE row_scaling.thrown = "std::out_of_range"

\* C22: an assign_vector of one factor was made on an object of three
C22_Witness ==
    /\ row_scaling.call.op = "assign_vector"
    /\ row_scaling.call.before = 3
    /\ RowScaling_size(row_scaling) = 1

\* where the next step of a thread reads or writes bjobs_cache: the clear and
\* the inserts of an update, the test for the key, the fetch of the code and
\* the insert of a probed status
CacheAccessPcs == {"bjobs_spawn", "bjobs_lines", "has_key", "get_int", "cache_insert"}

\* C23: a thread that is about to read or write bjobs_cache holds bjobs_mutex.
C23_CacheUnderMutex ==
    \A t \in Threads : pc[t] \in CacheAccessPcs => driver.bjobs_mutex = t

\* thread t completes the increment of error_count of a failed submission in
\* this step
CountsError(t) ==
    pc[t] = "submit_error" /\ (pc'[t] = "submit_done" \/ exited' # "")

\* C24: the step that counts a failed submission is taken by a thread that
\* holds submit_lock and leaves error_count one more than it was, so that no
\* failure is lost whatever the threads do.
C24_ErrorCountedUnderLock ==
    [][\A t \in Threads : CountsError(t) =>
          /\ driver.submit_lock = t
          /\ driver'.error_count = driver.error_count + 1]_vars

\* C25: my_jobs holds the key of every job a submission has returned, and no
\* key but those of ids above 0: a submission that was given the id 0 leaves
\* my_jobs as it was; a job is put in my_jobs by the thread that holds
\* submit_lock.
C25_MyJobsAreSubmitted ==
    /\ [](\A key \in driver.my_jobs : DigitsValue(key) > 0)
    /\ [](\A job \in handles : job.lsf_jobnr_char \in driver.my_jobs)
    /\ [][\A t \in Threads :
             pc[t] = "submit_register" /\ pc'[t] = "submit_unlock" =>
                 /\ driver.submit_lock = t
                 /\ driver'.my_jobs =
                        IF loc[t].job.lsf_jobnr > 0
                        THEN driver.my_jobs \cup {sprintf_d(loc[t].job.lsf_jobnr)}
                        ELSE driver.my_jobs]_vars

\* the cache an update leaves behind the lines of a listing: the code of the
\* token of each line whose id is in my_jobs
ListedCache(lines, my_jobs) ==
    {[key |-> sprintf_d(lines[i].job_id_int), value |-> status_map[lines[i].status]] :
        i \in {j \in DOMAIN lines : sprintf_d(lines[j].job_id_int) \in my_jobs}}

\* C26: when an update of the table ends, the cache holds the ids of the
\* lines of the listing that are in my_jobs, each with the code of its token,
\* and no other entry: none that was there before, and none of a probe.
C26_CacheIsListing ==
    [][\A t \in Threads :
          pc[t] = "bjobs_lines" /\ pc'[t] = "bjobs_unlock" =>
              driver'.bjobs_cache = ListedCache(loc[t].listing, driver.my_jobs)]_vars

\* the cache holds, for the job of thread t, the status a probe stored, and no
\* update of the table was started since
ProbeStored(t) ==
    /\ hash_has_key(driver.bjobs_cache, loc[t].job.lsf_jobnr_char)
    /\ [key |-> loc[t].job.lsf_jobnr_char, by |-> "bhist"] \in prov

\* C27: a lookup that does not find its job in the cache behind the update
\* turns the debug output on and runs the probe, and stores and returns the
\* status of the probe.  A lookup that finds the status a probe stored, made
\* when no more than the refresh interval has passed since the last update,
\* runs neither the listing nor the probe and returns the stored status.
C27_ProbeResultIsKept ==
    [][\A t \in Threads :
          LET key == loc[t].job.lsf_jobnr_char
          IN  /\ (pc[t] = "has_key" /\ pc'[t] # "has_key"
                     /\ ~hash_has_key(driver.bjobs_cache, key)) =>
                     pc'[t] = "bhist" /\ driver'.debug_output
              /\ (pc[t] = "cache_insert" /\ pc'[t] # "cache_insert") =>
                     /\ hash_has_key(driver'.bjobs_cache, key)
                     /\ hash_get_int(driver'.bjobs_cache, key) = loc[t].status
                     /\ ret'[t].lsf_status = loc[t].status
              /\ (pc[t] = "bjobs_lock" /\ pc'[t] # "bjobs_lock" /\ ProbeStored(t)
                     /\ now - driver.last_bjobs_update
                            <= driver.bjobs_refresh_interval) =>
                     pc'[t] = "bjobs_unlock"
              /\ (pc[t] = "has_key" /\ pc'[t] # "has_key" /\ ProbeStored(t)) =>
                     pc'[t] = "get_int"
              /\ (pc[t] = "get_int" /\ pc'[t] # "get_int" /\ ProbeStored(t)) =>
                     /\ pc'[t] = "status_done"
                     /\ ret'[t].lsf_status = hash_get_int(driver.bjobs_cache, key)
              /\ (pc[t] = "get_int" /\ ProbeStored(t)) =>
                     exited' # "util_abort: hash_get"]_vars

\* C27: a lookup made after the clock moved on, within the refresh interval
\* of the last update, found the status a probe stored and is about to return
\* it; the debug output is on
C27_Witness ==
    \E t \in Threads :
        /\ pc[t] = "get_int"
        /\ ProbeStored(t)
        /\ driver.last_bjobs_update < now
        /\ now - driver.last_bjobs_update <= driver.bjobs_refresh_interval
        /\ driver.debug_output

\* C28: each command the probe runs for a sample is the history command of the
\* driver with the id of the job: the bhist command itself under the local
\* shell, and "bhist <id>" on the server through the rsh command under the
\* remote shell.
C28_ProbeRunsBhist ==
    [][\A t \in Threads :
          pc[t] = "bhist" /\ pc'[t] = "cache_insert" =>
              /\ Len(loc'[t].result) >= 1
              /\ \A i \in DOMAIN loc'[t].result :
                    LET spawn == loc'[t].result[i]
                        id == loc[t].job.lsf_jobnr_char
                    IN  IF driver.submit_method = LSF_SUBMIT_REMOTE_SHELL
                        THEN /\ spawn.program = driver.rsh_cmd
                             /\ spawn.argv = <<driver.remote_lsf_server,
                                               driver.bhist_cmd \o <<" ">> \o id>>
                        ELSE /\ spawn.program = driver.bhist_cmd
                             /\ spawn.argv[1] = id]_vars

\* a text with a job id above 0 between a "<" and a ">"
HasJobId(text) ==
    \E i, j \in DOMAIN text :
        /\ i + 1 < j
        /\ text[i] = "<" /\ text[j] = ">"
        /\ \A k \in (i + 1)..(j - 1) : IsDigit(text[k])
        /\ DigitsValue(SubSeq(text, i + 1, j - 1)) > 0

\* thread t runs the submit command and parses its output in this step, and
\* the output is a text with no job id
ParsesUnparseable(t) ==
    /\ pc[t] = "submit_shell"
    /\ loc'[t] # loc[t]
    /\ loc'[t].stdout # <<>>
    /\ ~HasJobId(loc'[t].stdout)

\* C29: when the file of the submit command has text and no job id above 0,
\* the parser terminates the process: the submission returns nothing, and
\* error_count and my_jobs are as they were.
C29_UnparseableIsFatal ==
    [][\A t \in Threads : ParsesUnparseable(t) =>
          /\ exited' = "lsf_job_parse_bsub_stdout"
          /\ pc'[t] = "submit_shell"
          /\ ret' = ret
          /\ driver'.error_count = driver.error_count
          /\ driver'.my_jobs = driver.my_jobs
          /\ handles' = handles]_vars

\* C29: the process was terminated by the parser on the text "err"
C29_Witness ==
    /\ exited = "lsf_job_parse_bsub_stdout"
    /\ \E t \in Threads :
          /\ pc[t] = "submit_shell"
          /\ loc[t].stdout = <<"e","r","r">>
          /\ ret[t] = NoReturn

\* C30: a submission whose file has text and no job id does not terminate the
\* process: it goes on to count the error and return null; a submission
\* terminates the process only by the count of errors reaching
\* max_error_count.
C30_UnparseableIsRecoverable ==
    [][/\ \A t \in Threads : ParsesUnparseable(t) =>
             exited' = "" /\ pc'[t] = "submit_register"
       /\ (exited = "" /\ exited' \in {"lsf_job_parse_bsub_stdout",
                                       "util_exit: submit errors"}) =>
             /\ exited' = "util_exit: submit errors"
             /\ driver'.error_count >= driver.max_error_count]_vars

\* C31: no thread holds submit_lock and bjobs_mutex together; a thread that
\* is in no call holds neither; while the process runs, some thread that is
\* inside a call can take a step; and every call returns or the process is
\* terminated.
C31_NoDeadlock ==
    /\ [](\A t \in Threads :
             /\ ~(driver.submit_lock = t /\ driver.bjobs_mutex = t)
             /\ pc[t] \in {"idle", "submit_done", "status_done", "kill_done"} =>
                    driver.submit_lock # t /\ driver.bjobs_mutex # t)
    /\ []((Running /\ \E t \in Threads : pc[t] # "idle") =>
             \E t \in Threads :
                 pc[t] # "idle" /\ ENABLED (Step(t) \/ KillReturn(t)))
    /\ \A t \in Threads :
          [](pc[t] # "idle" => <>(pc[t] = "idle" \/ ~Running))

\* C31: one thread waits for submit_lock, which the other holds and is
\* about to release
C31_Witness ==
    \E t1, t2 \in Threads :
        /\ pc[t1] = "submit_lock" /\ driver.submit_lock = t2
        /\ t1 # t2
        /\ pc[t2] = "submit_unlock"

\* C32: get_status is called with jobs that submit has returned, and every key
\* of bjobs_cache, put there by the update of the table or after the bhist
\* probe, is a key of my_jobs.
C32_CacheKeysAreMyJobs ==
    /\ \A t \in Threads : pc[t] \in StatusPcs => loc[t].job \in handles
    /\ CacheKeys \subseteq driver.my_jobs

\* C32: the cache holds a key that the bhist probe has put there, while a
\* thread is about to put the key of a listed job there
C32_Witness ==
    /\ \E p \in prov : p.by = "bhist" /\ p.key \in CacheKeys
    /\ \E t \in Threads :
          /\ pc[t] = "bjobs_lines"
          /\ loc[t].lines # <<>>
          /\ sprintf_d(Head(loc[t].lines).job_id_int) \in driver.my_jobs

\* the values that select the remote shell: neither a null pointer nor a
\* spelling of one of the two sentinels
SelectsRemote(value) ==
    /\ value # NullPtr
    /\ ~SameButCase(value, LOCAL_LSF_SERVER)
    /\ ~SameButCase(value, NULL_LSF_SERVER)

\* C33 as stated: while the method is the remote shell, the recorded server
\* is the value that selected the remote shell, and no spelling of LOCAL or of
\* NULL; while it is the local shell, a recorded server is a spelling of
\* LOCAL.
C33_TargetMatchesMethod ==
    /\ [](driver.submit_method = LSF_SUBMIT_REMOTE_SHELL =>
             SelectsRemote(driver.remote_lsf_server))
    /\ []((/\ driver.submit_method = LSF_SUBMIT_LOCAL_SHELL
           /\ driver.remote_lsf_server # NullPtr) =>
             SameButCase(driver.remote_lsf_server, LOCAL_LSF_SERVER))
    /\ [][(/\ pc[1] = "set_option" /\ loc[1].key = LSF_SERVER
           /\ driver'.submit_method = LSF_SUBMIT_REMOTE_SHELL) =>
              driver'.remote_lsf_server =
                  IF SelectsRemote(loc[1].value) THEN loc[1].value
                  ELSE driver.remote_lsf_server]_vars

\* C34 as stated: no thread tests whether the id of a listed line is a key of
\* my_jobs while another thread is putting a key into my_jobs.
C34_MyJobsExclusive ==
    \A t, u \in Threads :
        ~(/\ pc[t] = "bjobs_lines" /\ loc[t].lines # <<>>
          /\ driver.bjobs_mutex = t
          /\ pc[u] = "submit_register"
          /\ driver.submit_lock = u)

====
